---- MODULE Spec2Model ----
(* ISO 15765-2 dissector (epan/dissectors/packet-iso15765.c): the            *)
(* segmentation / reassembly bookkeeping of dissect_iso15765, the per-frame  *)
(* cached assignments, first pass versus replay, and the session reset.      *)
EXTENDS Integers, Sequences, FiniteSets, TLC

(***************************************************************************)
(* Bounds of the model                                                     *)
(***************************************************************************)
MaxFrames == 3
WrapFrames == 258
MaxSeqFrames == 4
MaxTypeFrames == 3
MaxAddrFrames == 2
MaxClassFrames == 1
MaxSegmentFrames == 2
MaxFlowFrames == 1
MaxOrderFrames == 20
MaxControlFrames == 3

(***************************************************************************)
(* Constants of the program                                                *)
(***************************************************************************)
ISO15765_PCI_LEN == 1
ISO15765_PCI_FD_SF_LEN == 2
ISO15765_MESSAGE_TYPE_MASK == 240
ISO15765_MESSAGE_TYPES_SINGLE_FRAME == 0
ISO15765_MESSAGE_TYPES_FIRST_FRAME == 1
ISO15765_MESSAGE_TYPES_CONSECUTIVE_FRAME == 2
ISO15765_MESSAGE_TYPES_FLOW_CONTROL == 3
ISO15765_MESSAGE_TYPES_FR_SINGLE_FRAME_EXT == 4
ISO15765_MESSAGE_TYPES_FR_FIRST_FRAME_EXT == 5
ISO15765_MESSAGE_TYPES_FR_CONSECUTIVE_FRAME_2 == 6
ISO15765_MESSAGE_TYPES_FR_ACK_FRAME == 7
ISO15765_MESSAGE_DATA_LENGTH_MASK == 15
ISO15765_MESSAGE_SEQUENCE_NUMBER_MASK == 15
NORMAL_ADDRESSING == 1
EXTENDED_ADDRESSING == 2
DefaultWindow == 8
ZERO_BYTE_ADDRESSING == 0
ONE_BYTE_ADDRESSING == 1
TWO_BYTE_ADDRESSING == 2

\* A guint32 is held as the int32 with the same bits: 0xffffffff is -1, and
\* + and - are then the machine's as long as no int32 overflow occurs.
AllOnes32 == 0 - 1

\* a < b between two guint32
U32Lt(a, b) == IF (a < 0) = (b < 0) THEN a < b ELSE b < 0
UInt16 == 2 ^ 16
UInt8 == 2 ^ 8

(***************************************************************************)
(* Bit helpers                                                             *)
(***************************************************************************)
RECURSIVE BitAnd(_, _)
BitAnd(a, b) ==
    IF a = 0 \/ b = 0 THEN 0
    ELSE (a % 2) * (b % 2) + 2 * BitAnd(a \div 2, b \div 2)

RECURSIVE ws_ctz(_)
ws_ctz(x) ==
    IF x = 0 THEN 64
    ELSE IF x % 2 = 1 THEN 0 ELSE 1 + ws_ctz(x \div 2)

\* a variant that keeps only three bits of the masked value
masked_guint16_value_3bit(value, mask) ==
    (BitAnd(value, mask) \div (2 ^ ws_ctz(mask))) % 8

masked_guint16_value(value, mask) ==
    (BitAnd(value, mask) \div (2 ^ ws_ctz(mask))) % UInt16

\* 0x80000000 as a guint32
MinInt32 == 0 - 2147483647 - 1

\* a guint32 without its top bit
Low31(x) == IF x < 0 THEN x - MinInt32 ELSE x

\* & between two guint32
BitAnd32(a, b) ==
    (IF a < 0 /\ b < 0 THEN MinInt32 ELSE 0) + BitAnd(Low31(a), Low31(b))

\* >> of a guint32
ShiftRight32(x, k) ==
    IF k = 0 THEN x
    ELSE IF k >= 32 THEN 0
    ELSE (Low31(x) \div (2 ^ k)) + (IF x < 0 THEN 2 ^ (31 - k) ELSE 0)

masked_guint32_value(value, mask) == ShiftRight32(BitAnd32(value, mask), ws_ctz(mask))

\* packet-socketcan.h, as used at lines 615, 616 and 885
CAN_EFF_FLAG == MinInt32
CAN_RTR_FLAG == 2 ^ 30
CAN_ERR_FLAG == 2 ^ 29
CAN_EFF_MASK == 2 ^ 29 - 1
CAN_SFF_MASK == 2 ^ 11 - 1

ISO15765_ADDR_INVALID == AllOnes32

(***************************************************************************)
(* State                                                                   *)
(***************************************************************************)
VARIABLES
    msg_seqid,              \* static guint32 msg_seqid of dissect_iso15765
    iso15765_frame_table,   \* seq -> iso15765_frame_t
    frames,                 \* frames of the capture file, in order
    fragment_table,         \* reassembly: fragments of unfinished messages
    reassembled_table,      \* reassembly: (frame, seq) of finished messages
    cfg,                    \* preferences
    nfirst,                 \* first-pass dissections made so far
    out                     \* what the latest call of the dissector did

vars == <<msg_seqid, iso15765_frame_table, frames, fragment_table,
          reassembled_table, cfg, nfirst, out>>

EmptyMap == [x \in {} |-> FALSE]

MapPut(m, k, v) == [x \in (DOMAIN m) \cup {k} |-> IF x = k THEN v ELSE m[x]]

MapDel(m, k) == [x \in (DOMAIN m) \ {k} |-> m[x]]

NoInfo == [present |-> FALSE]

NoOut == [pass |-> "none"]

\* wmem_new0(iso15765_identifier_t), id and last set
NewInfo(frame_id) ==
    [present |-> TRUE, id |-> frame_id, seq |-> 0, frag_id |-> 0, last |-> FALSE]

\* a variant that keeps 12 bits of the declared length
NewFrame12Bit(seq, full_len) ==
    [seq |-> seq, offset |-> 0, len |-> full_len % 4096, error |-> FALSE,
     complete |-> FALSE, last_frag_id |-> 0,
     frag_id_high |-> [n \in 0..15 |-> 0]]

\* a variant in which the declared length is not stored
NewFrameUnsized(seq, full_len) ==
    [seq |-> seq, offset |-> 0, len |-> 0, error |-> FALSE,
     complete |-> FALSE, last_frag_id |-> 0,
     frag_id_high |-> [n \in 0..15 |-> 0]]

\* wmem_new0(iso15765_frame_t), seq and len set
NewFrame(seq, full_len) ==
    [seq |-> seq, offset |-> 0, len |-> full_len, error |-> FALSE,
     complete |-> FALSE, last_frag_id |-> 0,
     frag_id_high |-> [n \in 0..15 |-> 0]]

(***************************************************************************)
(* Address prefix length (CAN / LIN plain or extended addressing)          *)
(***************************************************************************)
\* a variant that lets the preference decide for LIN as well
AddressPrefixByMode(f) ==
    IF cfg.addressing = NORMAL_ADDRESSING THEN 0 ELSE 1

AddressPrefix(f) ==
    IF cfg.addressing = NORMAL_ADDRESSING /\ f.bus_type # "LIN" THEN 0 ELSE 1

(***************************************************************************)
(* Address resolution.  f.head holds the bytes of the frame in front of    *)
(* the PCI byte.  The result tells how many bytes the addresses take (ae), *)
(* whether the frame is too short for them, the number of valid addresses  *)
(* and, when the code assigns them (written), source and target.           *)
(***************************************************************************)
RECURSIVE ReadUInt(_, _, _)
\* the n bytes of head from offset off, big endian
ReadUInt(head, off, n) ==
    IF n = 0 THEN 0
    ELSE LET high == ReadUInt(head, off, n - 1)
         IN  (IF high >= 2 ^ 23 THEN high - 2 ^ 24 ELSE high) * 256 + head[off + n]

Resolved(ae, short, valid, written, source, target) ==
    [ae |-> ae, short |-> short, valid |-> valid, written |-> written,
     source |-> source, target |-> target]

\* a variant in which a row with an ECU mask yields the source address only
find_ecu_source_only(ext_id, can_id) ==
    LET maps == cfg.config_can_addr_mappings
        hits == {i \in 1..Len(maps) :
                    /\ maps[i].extended_address = ext_id
                    /\ BitAnd32(maps[i].can_id, maps[i].can_id_mask)
                         = BitAnd32(can_id, maps[i].can_id_mask)}
    IN  IF hits = {} THEN Resolved(0, FALSE, 0, FALSE, 0, 0)
        ELSE LET tmp == maps[CHOOSE i \in hits : \A j \in hits : i <= j]
             IN  IF tmp.ecu_addr_mask # 0
                 THEN Resolved(0, FALSE, 1, TRUE,
                               masked_guint32_value(can_id, tmp.ecu_addr_mask),
                               ISO15765_ADDR_INVALID)
                 ELSE Resolved(0, FALSE, 2, TRUE,
                               masked_guint32_value(can_id, tmp.source_addr_mask),
                               masked_guint32_value(can_id, tmp.target_addr_mask))

\* a variant that uses the last matching row of the table
find_last_can_addr_mapping(ext_id, can_id) ==
    LET maps == cfg.config_can_addr_mappings
        hits == {i \in 1..Len(maps) :
                    /\ maps[i].extended_address = ext_id
                    /\ BitAnd32(maps[i].can_id, maps[i].can_id_mask)
                         = BitAnd32(can_id, maps[i].can_id_mask)}
    IN  IF hits = {} THEN Resolved(0, FALSE, 0, FALSE, 0, 0)
        ELSE LET tmp == maps[CHOOSE i \in hits : \A j \in hits : i >= j]
             IN  IF tmp.ecu_addr_mask # 0
                 THEN Resolved(0, FALSE, 1, TRUE,
                               masked_guint32_value(can_id, tmp.ecu_addr_mask),
                               masked_guint32_value(can_id, tmp.ecu_addr_mask))
                 ELSE Resolved(0, FALSE, 2, TRUE,
                               masked_guint32_value(can_id, tmp.source_addr_mask),
                               masked_guint32_value(can_id, tmp.target_addr_mask))

\* source and target are left as they were when nothing is returned
find_config_can_addr_mapping(ext_id, can_id) ==
    LET maps == cfg.config_can_addr_mappings
        hits == {i \in 1..Len(maps) :
                    /\ maps[i].extended_address = ext_id
                    /\ BitAnd32(maps[i].can_id, maps[i].can_id_mask)
                         = BitAnd32(can_id, maps[i].can_id_mask)}
    IN  IF hits = {} THEN Resolved(0, FALSE, 0, FALSE, 0, 0)
        ELSE LET tmp == maps[CHOOSE i \in hits : \A j \in hits : i <= j]
             IN  IF tmp.ecu_addr_mask # 0
                 THEN Resolved(0, FALSE, 1, TRUE,
                               masked_guint32_value(can_id, tmp.ecu_addr_mask),
                               masked_guint32_value(can_id, tmp.ecu_addr_mask))
                 ELSE IF tmp.source_addr_mask # 0 /\ tmp.target_addr_mask # 0
                 THEN Resolved(0, FALSE, 2, TRUE,
                               masked_guint32_value(can_id, tmp.source_addr_mask),
                               masked_guint32_value(can_id, tmp.target_addr_mask))
                 ELSE Resolved(0, FALSE, 0, FALSE, 0, 0)

\* a variant that reads the target address at the start of the frame
handle_pdu_transport_target_first(f) ==
    LET items == cfg.config_pdu_transport_config_items
        found == {i \in 1..Len(items) : items[i].pdu_id = f.frame_id}
    IN  IF found = {}
        THEN Resolved(0, FALSE, 0, TRUE, ISO15765_ADDR_INVALID, ISO15765_ADDR_INVALID)
        ELSE
        LET config == items[CHOOSE i \in found : \A j \in found : i <= j]
            ssize == config.source_address_size
            tsize == config.target_address_size
        IN  IF config.ecu_address_size # 0
            THEN IF Len(f.head) < config.ecu_address_size
                 THEN Resolved(0, TRUE, 0, TRUE, ISO15765_ADDR_INVALID, ISO15765_ADDR_INVALID)
                 ELSE Resolved(config.ecu_address_size, FALSE, 1, TRUE,
                               ReadUInt(f.head, 0, config.ecu_address_size),
                               ReadUInt(f.head, 0, config.ecu_address_size))
            ELSE IF config.ecu_address_fixed # ISO15765_ADDR_INVALID
            THEN Resolved(0, FALSE, 1, TRUE, config.ecu_address_fixed, config.ecu_address_fixed)
            ELSE IF ssize = 0 /\ config.source_address_fixed = ISO15765_ADDR_INVALID
                    /\ tsize = 0 /\ config.target_address_fixed = ISO15765_ADDR_INVALID
            THEN Resolved(0, FALSE, 0, TRUE, ISO15765_ADDR_INVALID, ISO15765_ADDR_INVALID)
            ELSE IF Len(f.head) < ssize + tsize
            THEN Resolved(0, TRUE, 2, TRUE, ISO15765_ADDR_INVALID, ISO15765_ADDR_INVALID)
            ELSE Resolved(ssize + tsize, FALSE, 2, TRUE,
                          IF ssize # 0 THEN ReadUInt(f.head, 0, ssize)
                          ELSE config.source_address_fixed,
                          IF tsize # 0 THEN ReadUInt(f.head, 0, tsize)
                          ELSE config.target_address_fixed)

handle_pdu_transport_addresses(f) ==
    LET items == cfg.config_pdu_transport_config_items
        found == {i \in 1..Len(items) : items[i].pdu_id = f.frame_id}
    IN  IF found = {}
        THEN Resolved(0, FALSE, 0, TRUE, ISO15765_ADDR_INVALID, ISO15765_ADDR_INVALID)
        ELSE
        LET config == items[CHOOSE i \in found : \A j \in found : i <= j]
            ssize == config.source_address_size
            tsize == config.target_address_size
        IN  IF config.ecu_address_size # 0
            THEN IF Len(f.head) < config.ecu_address_size
                 THEN Resolved(0, TRUE, 0, TRUE, ISO15765_ADDR_INVALID, ISO15765_ADDR_INVALID)
                 ELSE Resolved(config.ecu_address_size, FALSE, 1, TRUE,
                               ReadUInt(f.head, 0, config.ecu_address_size),
                               ReadUInt(f.head, 0, config.ecu_address_size))
            ELSE IF config.ecu_address_fixed # ISO15765_ADDR_INVALID
            THEN Resolved(0, FALSE, 1, TRUE, config.ecu_address_fixed, config.ecu_address_fixed)
            ELSE IF ssize = 0 /\ config.source_address_fixed = ISO15765_ADDR_INVALID
                    /\ tsize = 0 /\ config.target_address_fixed = ISO15765_ADDR_INVALID
            THEN Resolved(0, FALSE, 0, TRUE, ISO15765_ADDR_INVALID, ISO15765_ADDR_INVALID)
            ELSE IF Len(f.head) < ssize + tsize
            THEN Resolved(0, TRUE, 2, TRUE, ISO15765_ADDR_INVALID, ISO15765_ADDR_INVALID)
            ELSE Resolved(ssize + tsize, FALSE, 2, TRUE,
                          IF ssize # 0 THEN ReadUInt(f.head, 0, ssize)
                          ELSE config.source_address_fixed,
                          IF tsize # 0 THEN ReadUInt(f.head, ssize, tsize)
                          ELSE config.target_address_fixed)

\* two addresses of n bytes each in front of the PCI (FlexRay, I-PduM)
TwoAddresses(f, n) ==
    IF Len(f.head) < 2 * n THEN Resolved(2 * n, TRUE, 2, FALSE, 0, 0)
    ELSE Resolved(2 * n, FALSE, 2, TRUE,
                  ReadUInt(f.head, 0, n) % UInt16, ReadUInt(f.head, n, n) % UInt16)

Addresses(f) ==
    LET ae == AddressPrefix(f)
    IN  IF f.bus_type = "FLEXRAY" THEN TwoAddresses(f, cfg.flexray_addressing)
        ELSE IF f.bus_type = "IPDUM" /\ cfg.ipdum_addressing > 0
        THEN TwoAddresses(f, cfg.ipdum_addressing)
        ELSE IF f.bus_type = "PDU_TRANSPORT" THEN handle_pdu_transport_addresses(f)
        ELSE IF ae # 0
        THEN IF Len(f.head) < ae THEN Resolved(ae, TRUE, 1, FALSE, 0, 0)
             ELSE Resolved(ae, FALSE, 1, TRUE,
                           ReadUInt(f.head, 0, ae) % UInt16, ReadUInt(f.head, 0, ae) % UInt16)
        ELSE IF f.bus_type \in {"CAN", "CAN_FD"}
        THEN LET ext_id == BitAnd32(CAN_EFF_FLAG, f.frame_id) = CAN_EFF_FLAG
                 can_id == IF ext_id THEN BitAnd32(f.frame_id, CAN_EFF_MASK)
                           ELSE BitAnd32(f.frame_id, CAN_SFF_MASK)
             IN  find_config_can_addr_mapping(ext_id, can_id)
        ELSE Resolved(0, FALSE, 0, FALSE, 0, 0)

\* the iso15765_info_t handed to the next-level decoder; stack is what the
\* local variable held where the code assigns nothing to the address fields
iso15765data(f, stack) ==
    LET a == Addresses(f)
    IN  [bus_type |-> f.bus_type, id |-> f.frame_id, len |-> f.frame_length,
         number_of_addresses_valid |-> a.valid,
         source_address |-> IF a.written THEN a.source ELSE stack,
         target_address |-> IF a.written THEN a.target ELSE stack]

(***************************************************************************)
(* The switch over the message type: offsets, lengths, flags               *)
(***************************************************************************)
SegmentClamp(f, ae, offset, data_length) ==
    LET room == cfg.flexray_segment_size_limit - (offset - ae)
    IN IF f.bus_type = "FLEXRAY" /\ cfg.flexray_segment_size_limit # 0
          /\ U32Lt(room, data_length)
       THEN room ELSE data_length

Classified(mt, offset, data_length, full_len, low, fragmented, first, consecutive, complete) ==
    [message_type |-> mt, offset |-> offset, data_length |-> data_length,
     full_len |-> full_len, frag_id_low |-> low, fragmented |-> fragmented,
     first |-> first, consecutive |-> consecutive, complete |-> complete,
     malformed |-> FALSE, short |-> FALSE]

ShortFrame == [malformed |-> FALSE, short |-> TRUE]

Classify(f, ae) ==
    LET pci == f.pci
        message_type == masked_guint16_value(pci, ISO15765_MESSAGE_TYPE_MASK)
        low == masked_guint16_value(pci, ISO15765_MESSAGE_DATA_LENGTH_MASK)
        pci16 == pci * 256 + f.byte1
    IN  IF message_type = ISO15765_MESSAGE_TYPES_SINGLE_FRAME THEN
            IF f.frame_length > 8 /\ BitAnd(pci, ISO15765_MESSAGE_DATA_LENGTH_MASK) = 0
            THEN IF f.tvb_len < ae + 2 \/ f.tvb_len < ae + ISO15765_PCI_FD_SF_LEN + f.byte1
                 THEN ShortFrame
                 ELSE Classified(message_type, ae + ISO15765_PCI_FD_SF_LEN, f.byte1,
                                 0, 0, FALSE, FALSE, FALSE, TRUE)
            ELSE IF f.tvb_len < ae + ISO15765_PCI_LEN + low
                 THEN ShortFrame
                 ELSE Classified(message_type, ae + ISO15765_PCI_LEN, low,
                                 0, 0, FALSE, FALSE, FALSE, TRUE)
        ELSE IF message_type = ISO15765_MESSAGE_TYPES_FIRST_FRAME THEN
            IF f.tvb_len < ae + 2 THEN ShortFrame
            ELSE IF pci16 = 4096 THEN
                IF f.tvb_len < ae + 6 THEN ShortFrame
                ELSE Classified(message_type, ae + 2 + 4,
                                SegmentClamp(f, ae, ae + 2 + 4, f.tvb_len - (ae + 2 + 4)),
                                f.len32, 0, TRUE, TRUE, FALSE, FALSE)
            ELSE Classified(message_type, ae + 2,
                            SegmentClamp(f, ae, ae + 2, f.tvb_len - (ae + 2)),
                            BitAnd(pci16, 4095), 0, TRUE, TRUE, FALSE, FALSE)
        ELSE IF message_type \in {ISO15765_MESSAGE_TYPES_CONSECUTIVE_FRAME,
                                  ISO15765_MESSAGE_TYPES_FR_CONSECUTIVE_FRAME_2} THEN
            Classified(message_type, ae + ISO15765_PCI_LEN,
                       SegmentClamp(f, ae, ae + ISO15765_PCI_LEN,
                                    f.tvb_len - (ae + ISO15765_PCI_LEN)),
                       0, masked_guint16_value(pci, ISO15765_MESSAGE_SEQUENCE_NUMBER_MASK),
                       TRUE, FALSE, TRUE, FALSE)
        ELSE IF message_type \in {ISO15765_MESSAGE_TYPES_FLOW_CONTROL,
                                  ISO15765_MESSAGE_TYPES_FR_ACK_FRAME} THEN
            IF f.tvb_len < ae + 3
               \/ (message_type = ISO15765_MESSAGE_TYPES_FR_ACK_FRAME /\ f.tvb_len < ae + 4)
            THEN ShortFrame
            ELSE Classified(message_type, ae + 3, 0, 0, 0, FALSE, FALSE, FALSE, FALSE)
        ELSE IF message_type = ISO15765_MESSAGE_TYPES_FR_SINGLE_FRAME_EXT THEN
            IF f.tvb_len < ae + 2 \/ f.tvb_len < ae + ISO15765_PCI_FD_SF_LEN + f.byte1
            THEN ShortFrame
            ELSE Classified(message_type, ae + ISO15765_PCI_FD_SF_LEN, f.byte1,
                            0, 0, FALSE, FALSE, FALSE, TRUE)
        ELSE IF message_type = ISO15765_MESSAGE_TYPES_FR_FIRST_FRAME_EXT THEN
            IF f.tvb_len < ae + 5 THEN ShortFrame
            ELSE Classified(message_type, ae + 1 + 4,
                            SegmentClamp(f, ae, ae + 1 + 4, f.tvb_len - (ae + 1 + 4)),
                            f.len32, 0, TRUE, TRUE, FALSE, FALSE)
        ELSE [malformed |-> TRUE, short |-> FALSE, message_type |-> message_type]

(***************************************************************************)
(* Flow Control and Ack frames: the separation time                        *)
(***************************************************************************)
\* tvb_get_guint8(tvb, ae + ISO15765_FC_STMIN_OFFSET): the byte behind byte1,
\* the first of the four bytes that len32 holds
StMinByte(f) == BitAnd(ShiftRight32(f.len32, 24), 255)

\* a variant that takes 0xFA for a microsecond value as well
SeparationTimeThrough0xFA(stmin) ==
    IF stmin >= 241 /\ stmin <= 250
    THEN [stmin |-> (stmin - 240) * 100, stmin_in_us |-> TRUE]
    ELSE [stmin |-> stmin, stmin_in_us |-> FALSE]

\* stmin and stmin_in_us as shown in the tree and in the info column
SeparationTime(stmin) ==
    IF stmin >= 241 /\ stmin <= 249
    THEN [stmin |-> (stmin - 240) * 100, stmin_in_us |-> TRUE]
    ELSE [stmin |-> stmin, stmin_in_us |-> FALSE]

(***************************************************************************)
(* The generic fragment reassembly (epan/reassemble.c), called with the    *)
(* keys, lengths and the terminal flag the dissector produces.             *)
(* fragment_table: seq -> fragments received of an unfinished message;     *)
(* reassembled_table: <<frame, seq>> -> the frame the message was          *)
(* reassembled in.  A head of 0 is NULL.                                   *)
(***************************************************************************)
NoHead == [ids |-> {}, tail |-> -1, frames |-> {}]

fragment_add_seq_check(ftab, rtab, num, visited, id, frag_number, more_frags) ==
    IF visited
    THEN [ftab |-> ftab, rtab |-> rtab,
          head |-> IF <<num, id>> \in DOMAIN rtab THEN rtab[<<num, id>>] ELSE 0]
    ELSE LET h0 == IF id \in DOMAIN ftab THEN ftab[id] ELSE NoHead
             h1 == [ids |-> h0.ids \cup {frag_number},
                    tail |-> IF ~more_frags /\ h0.tail = -1 THEN frag_number ELSE h0.tail,
                    frames |-> h0.frames \cup {num}]
             done == h1.tail >= 0 /\ \A k \in 0..h1.tail : k \in h1.ids
             keys == {<<n, id>> : n \in h1.frames}
         IN  IF done
             THEN [ftab |-> MapDel(ftab, id),
                   rtab |-> [k \in (DOMAIN rtab) \cup keys |->
                                IF k \in keys THEN num ELSE rtab[k]],
                   head |-> num]
             ELSE [ftab |-> MapPut(ftab, id, h1), rtab |-> rtab, head |-> 0]

\* a new tvb only in the frame the message was reassembled in
process_reassembled_data(head, num) == head # 0 /\ head = num

(***************************************************************************)
(* dissect_iso15765: the guards and the arithmetic of the reassembly block *)
(***************************************************************************)
\* mutant: the visited flag is not consulted
FirstPassAlways(visited) == TRUE

\* !(pinfo->fd->visited)
FirstPassOnly(visited) == ~visited

\* guint16 tmp = frag_id_high[frag_id]++  (guint8 counter)
NextFragIdHigh(high) == (high + 1) % UInt8

\* frag_id += tmp * 16  (guint16)
ExpandFragId(frag_id_low, tmp) == (frag_id_low + tmp * 16) % UInt16

\* mutant: the window is checked ahead of the highest id instead of behind it
WindowErrorAhead(frag_id, last_frag_id) == U32Lt(last_frag_id + cfg.window, frag_id)

\* iso15765_info->frag_id + window < iso15765_frame->last_frag_id
WindowError(frag_id, last_frag_id) == U32Lt(frag_id + cfg.window, last_frag_id)

\* mutant: the error flag is not consulted
IncorporateAlways(fr) == TRUE

\* mutant: an errored sequence is left alone only once it is complete
IncorporateUnlessComplete(fr) == ~fr.error \/ ~fr.complete

\* if (!iso15765_frame->error)
Incorporate(fr) == ~fr.error

\* mutant: the bytes accumulated stop at the declared length
AccumulateClamped(fr, frag_id, len) ==
    LET offset == fr.offset + len
        reached == ~U32Lt(offset, fr.len)
    IN  [fr |-> [fr EXCEPT !.last_frag_id = IF frag_id > fr.last_frag_id
                                            THEN frag_id ELSE fr.last_frag_id,
                           !.offset = IF reached THEN fr.len ELSE offset,
                           !.complete = fr.complete \/ reached],
         last |-> reached,
         len |-> IF reached THEN len - (offset - fr.len) ELSE len]

\* the first-pass update of last_frag_id, offset, complete; len is data_length
Accumulate(fr, frag_id, len) ==
    LET offset == fr.offset + len
        reached == ~U32Lt(offset, fr.len)
    IN  [fr |-> [fr EXCEPT !.last_frag_id = IF frag_id > fr.last_frag_id
                                            THEN frag_id ELSE fr.last_frag_id,
                           !.offset = offset,
                           !.complete = fr.complete \/ reached],
         last |-> reached,
         len |-> IF reached THEN len - (offset - fr.len) ELSE len]

\* a variant that sends every payload to the data dissector
DispatchSink(next_tvb, complete) ==
    IF ~next_tvb THEN "none" ELSE "sink"

\* a variant that dispatches without asking whether there is a payload
DispatchUnasked(next_tvb, complete) ==
    IF complete THEN "decoder" ELSE "sink"

\* if (next_tvb): a complete payload is offered to the next-level decoder
\* (dissector_try_payload_new, which falls back to the data dissector when no
\* decoder takes it), an incomplete one goes to the data dissector
Dispatch(next_tvb, complete) ==
    IF ~next_tvb THEN "none"
    ELSE IF complete THEN "decoder" ELSE "sink"

Result(ret, exception, c, info, bound, errored, handed, len, new_tvb, dispatch) ==
    [ret |-> ret, exception |-> exception, malformed |-> c.malformed,
     seq |-> info.seq, frag_id |-> info.frag_id, last |-> info.last,
     bound |-> bound, errored |-> errored, handed |-> handed, len |-> len,
     new_tvb |-> new_tvb, dispatch |-> dispatch]

Outcome(seqid, table, ftab, rtab, info, res) ==
    [msg_seqid |-> seqid, table |-> table, ftab |-> ftab, rtab |-> rtab,
     info |-> info, res |-> res]

(***************************************************************************)
(* The reassembly block of dissect_iso15765 (if (fragmented) ...)          *)
(***************************************************************************)
Reassemble(c, num, visited, seqid, table, info) ==
    IF info.seq \notin DOMAIN table
    THEN Outcome(seqid, table, fragment_table, reassembled_table, info,
                 Result("captured", "none", c, info, FALSE, FALSE, FALSE, 0, FALSE, "none"))
    ELSE
    LET fr0 == table[info.seq]
        low == c.frag_id_low
        first == FirstPassOnly(visited)
        tmp == fr0.frag_id_high[low]
        fr1 == IF first THEN [fr0 EXCEPT !.frag_id_high[low] = NextFragIdHigh(tmp)] ELSE fr0
        assert_fails == first /\ fr1.frag_id_high[low] = 0
        info1 == IF first THEN [info EXCEPT !.frag_id = ExpandFragId(low, tmp)] ELSE info
        frag_id == IF first THEN info1.frag_id ELSE low
        fr2 == IF first /\ WindowError(info1.frag_id, fr1.last_frag_id)
               THEN [fr1 EXCEPT !.error = TRUE] ELSE fr1
    IN  IF assert_fails
        THEN Outcome(seqid, MapPut(table, info.seq, fr1), fragment_table,
                     reassembled_table, info,
                     Result("exception", "assert", c, info, TRUE, fr1.error, FALSE, 0, FALSE, "none"))
        ELSE IF ~Incorporate(fr2)
        THEN Outcome(seqid, MapPut(table, info.seq, fr2), fragment_table,
                     reassembled_table, info1,
                     Result("captured", "none", c, info1, TRUE, TRUE, FALSE, 0, FALSE,
                            Dispatch(TRUE, FALSE)))
        ELSE
        LET acc == IF first THEN Accumulate(fr2, frag_id, c.data_length)
                   ELSE [fr |-> fr2, last |-> FALSE, len |-> c.data_length]
            info2 == IF acc.last THEN [info1 EXCEPT !.last = TRUE] ELSE info1
            table2 == MapPut(table, info.seq, acc.fr)
            ra == fragment_add_seq_check(fragment_table, reassembled_table, num, visited,
                                         info2.seq, info2.frag_id, ~info2.last)
            new_tvb == process_reassembled_data(ra.head, num)
        IN  IF ~visited /\ U32Lt(c.data_length, acc.len)
            THEN Outcome(seqid, table2, fragment_table, reassembled_table, info2,
                         Result("exception", "bounds", c, info2, TRUE, FALSE, TRUE, acc.len,
                                FALSE, "none"))
            ELSE Outcome(seqid, table2, ra.ftab, ra.rtab, info2,
                         Result("captured", "none", c, info2, TRUE, FALSE, TRUE, acc.len,
                                new_tvb, Dispatch(TRUE, new_tvb)))

(***************************************************************************)
(* dissect_iso15765 on frame f, the num-th frame of the file               *)
(***************************************************************************)
\* a variant that binds a Consecutive Frame to the sequence opened before the
\* newest one
SequenceBeforeNewest(seqid) == IF seqid > 1 THEN seqid - 1 ELSE seqid

\* iso15765_info->seq = msg_seqid: the sequence a first-pass Consecutive Frame
\* is bound to
NewestSequence(seqid) == seqid

Dissect(f, num, visited, info0) ==
    LET info1 == IF info0.present THEN info0 ELSE NewInfo(f.frame_id)
        adr == Addresses(f)
        ae == adr.ae
        c == IF adr.short \/ f.tvb_len < ae + 1 THEN ShortFrame ELSE Classify(f, ae)
    IN  IF c.short
        THEN Outcome(msg_seqid, iso15765_frame_table, fragment_table, reassembled_table, info1,
                     Result("exception", "bounds", c, info1, FALSE, FALSE, FALSE, 0, FALSE, "none"))
        ELSE IF c.malformed
        THEN Outcome(msg_seqid, iso15765_frame_table, fragment_table, reassembled_table, info1,
                     Result("ae", "none", c, info1, FALSE, FALSE, FALSE, 0, FALSE, "none"))
        ELSE
        LET alloc == c.first /\ FirstPassOnly(visited)
            seqid == IF alloc THEN msg_seqid + 1 ELSE msg_seqid
            info2 == IF alloc THEN [info1 EXCEPT !.seq = seqid]
                     ELSE IF c.consecutive /\ FirstPassOnly(visited)
                          THEN [info1 EXCEPT !.seq = NewestSequence(msg_seqid)]
                          ELSE info1
            table == IF alloc
                     THEN MapPut(iso15765_frame_table, seqid, NewFrame(seqid, c.full_len))
                     ELSE iso15765_frame_table
        IN  IF c.fragmented
            THEN Reassemble(c, num, visited, seqid, table, info2)
            ELSE Outcome(seqid, table, fragment_table, reassembled_table, info2,
                         Result("captured", "none", c, info2, FALSE, FALSE, FALSE, 0, FALSE,
                                Dispatch(c.complete, c.complete)))

(***************************************************************************)
(* dissect_iso15765_can and the other entry points                         *)
(***************************************************************************)
Ignored ==
    [ret |-> "0", exception |-> "none", malformed |-> FALSE, seq |-> 0, frag_id |-> 0,
     last |-> FALSE, bound |-> FALSE, errored |-> FALSE, handed |-> FALSE, len |-> 0,
     new_tvb |-> FALSE, dispatch |-> "none"]

\* a variant without the test of the error and RTR flags
dissect_can_unfiltered(f, num, visited, info0) == Dissect(f, num, visited, info0)

dissect_iso15765_can(f, num, visited, info0) ==
    IF BitAnd32(f.frame_id, CAN_ERR_FLAG + CAN_RTR_FLAG) # 0
    THEN Outcome(msg_seqid, iso15765_frame_table, fragment_table, reassembled_table,
                 info0, Ignored)
    ELSE Dissect(f, num, visited, info0)

\* the dissector handle the frame's bus calls
Enter(f, num, visited, info0) ==
    IF f.bus_type \in {"CAN", "CAN_FD"} THEN dissect_iso15765_can(f, num, visited, info0)
    ELSE Dissect(f, num, visited, info0)

\* !dissector_try_payload_new(...) sends a complete payload to the data
\* dissector when no next-level decoder accepts it
\* a variant without the fall-back to the data dissector
DeliverToDecoder(dispatch, accepts) == dispatch

Deliver(dispatch, accepts) ==
    IF dispatch = "decoder" /\ ~accepts THEN "sink" ELSE dispatch

NoData == [offered |-> FALSE]

(***************************************************************************)
(* Frames offered to the dissector and preferences                         *)
(***************************************************************************)
\* a frame: the bytes in front of the PCI, the PCI byte, the byte after it, the
\* 32-bit length field of an escaped First Frame, the length of the tvb; its
\* payload is one that a next-level decoder accepts
TvbWith(bus, id, head, pci, byte1, len32, len) ==
    [bus_type |-> bus, frame_id |-> id, head |-> head, pci |-> pci, byte1 |-> byte1,
     len32 |-> len32, tvb_len |-> len, frame_length |-> len, accepted |-> TRUE]

\* the same frame with a payload that no next-level decoder accepts
Refused(f) == [f EXCEPT !.accepted = FALSE]

Tvb(bus, id, pci, byte1, len) == TvbWith(bus, id, <<>>, pci, byte1, 0, len)

FrameIds == {1, 2}

\* First Frames: 2 bytes declared and 2 carried, or 4 declared and 1 carried
FirstFrames ==
    {Tvb("CAN", id, 16, 2, 4) : id \in FrameIds} \cup {Tvb("CAN", id, 16, 4, 3) : id \in FrameIds}

\* Consecutive Frames with sequence number 0, 1 or 2 and 2 bytes of payload
ConsecutiveFrames == {Tvb("CAN", 1, pci, 170, 3) : pci \in {32, 33, 34}}

OtherFrames == {Tvb("CAN", 1, 1, 170, 2), Tvb("CAN", 1, 48, 0, 3), Tvb("CAN", 1, 128, 0, 2)}

Inputs == FirstFrames \cup ConsecutiveFrames \cup OtherFrames

Windows == {DefaultWindow, AllOnes32}

\* what the address fields of the local iso15765data may hold on entry
StackValues == {0, AllOnes32}

ConfigWith(w, addressing, flexray_addressing, ipdum_addressing, mappings, items) ==
    [window |-> w, addressing |-> addressing, flexray_segment_size_limit |-> 0,
     flexray_addressing |-> flexray_addressing, ipdum_addressing |-> ipdum_addressing,
     config_can_addr_mappings |-> mappings,
     config_pdu_transport_config_items |-> items]

\* the preferences as registered, but for the window
Config(w) ==
    ConfigWith(w, NORMAL_ADDRESSING, ONE_BYTE_ADDRESSING, ZERO_BYTE_ADDRESSING, <<>>, <<>>)

(***************************************************************************)
(* Actions                                                                 *)
(***************************************************************************)
Init ==
    /\ msg_seqid = 0
    /\ iso15765_frame_table = EmptyMap
    /\ frames = <<>>
    /\ fragment_table = EmptyMap
    /\ reassembled_table = EmptyMap
    /\ cfg \in {Config(w) : w \in Windows}
    /\ nfirst = 0
    /\ out = NoOut

\* a variant in which the payload always starts behind the PCI byte
NextTvbBehindPci(res, f) ==
    IF res.dispatch = "none" THEN [present |-> FALSE]
    ELSE IF res.new_tvb THEN [present |-> TRUE, reassembled |-> TRUE]
    ELSE LET c == Classify(f, Addresses(f).ae)
         IN  [present |-> TRUE, reassembled |-> FALSE,
              offset |-> Addresses(f).ae + ISO15765_PCI_LEN, length |-> c.data_length]

\* next_tvb at the dispatch: the reassembled message, or the bytes of the
\* frame from offset on, data_length of them
NextTvb(res, f) ==
    IF res.dispatch = "none" THEN [present |-> FALSE]
    ELSE IF res.new_tvb THEN [present |-> TRUE, reassembled |-> TRUE]
    ELSE LET c == Classify(f, Addresses(f).ae)
         IN  [present |-> TRUE, reassembled |-> FALSE,
              offset |-> c.offset, length |-> c.data_length]

\* the separation time a Flow Control or Ack frame is shown with
FlowControl(res, f) ==
    IF res.ret = "captured"
       /\ masked_guint16_value(f.pci, ISO15765_MESSAGE_TYPE_MASK)
              \in {ISO15765_MESSAGE_TYPES_FLOW_CONTROL, ISO15765_MESSAGE_TYPES_FR_ACK_FRAME}
    THEN [present |-> TRUE, shown |-> SeparationTime(StMinByte(f))]
    ELSE [present |-> FALSE]

\* where the payload went, what the next-level decoder was given and what was
\* shown of a Flow Control frame, for every content of the unassigned address
\* fields
Observed(res, f) ==
    {[sent |-> Deliver(res.dispatch, f.accepted),
      next_tvb |-> NextTvb(res, f),
      fc |-> FlowControl(res, f),
      data |-> IF res.dispatch = "decoder"
               THEN [offered |-> TRUE, info |-> iso15765data(f, stack)]
               ELSE NoData] : stack \in StackValues}

Apply(o, num, pass, f) ==
    /\ msg_seqid' = o.msg_seqid
    /\ iso15765_frame_table' = o.table
    /\ fragment_table' = o.ftab
    /\ reassembled_table' = o.rtab
    /\ \E seen \in Observed(o.res, f) :
          out' = [pass |-> pass, num |-> num, tvb |-> f, res |-> o.res,
                  sent |-> seen.sent, next_tvb |-> seen.next_tvb,
                  fc |-> seen.fc, data |-> seen.data]

\* the first dissection of the next frame of the file; the frame is then visited
DissectNew(f) ==
    \E num \in {Len(frames) + 1} : \E o \in {Enter(f, num, FALSE, NoInfo)} :
        /\ Apply(o, num, "first", f)
        /\ frames' = Append(frames, [tvb |-> f, visited |-> TRUE, info |-> o.info,
                                     first |-> o.res])
        /\ nfirst' = nfirst + 1
        /\ UNCHANGED cfg

FirstPass ==
    /\ nfirst < MaxFrames
    /\ \E f \in Inputs : DissectNew(f)

\* a later dissection of a frame already seen
Replay ==
    \E num \in 1..Len(frames) :
        \E o \in {Enter(frames[num].tvb, num, frames[num].visited, frames[num].info)} :
            /\ Apply(o, num, "replay", frames[num].tvb)
            /\ frames' = [frames EXCEPT ![num].info = o.info]
            /\ UNCHANGED <<cfg, nfirst>>

\* a new capture file: file-scoped memory (the autoreset frame table, the
\* per-frame data, the reassembly tables) is released; the static counter and
\* the preferences stay
NewSession ==
    /\ frames # <<>>
    /\ iso15765_frame_table' = EmptyMap
    /\ frames' = <<>>
    /\ fragment_table' = EmptyMap
    /\ reassembled_table' = EmptyMap
    /\ out' = NoOut
    /\ UNCHANGED <<msg_seqid, cfg, nfirst>>

Next == FirstPass \/ Replay \/ NewSession

Spec == Init /\ [][Next]_vars

(***************************************************************************)
(* A long message whose Consecutive Frames all carry sequence number 1:    *)
(* the wrap counter of that nibble runs through its whole guint8 range.    *)
(***************************************************************************)
WrapFirst ==
    /\ frames = <<>>
    /\ DissectNew(Tvb("CAN", 1, 31, 255, 3))

WrapNext ==
    /\ Len(frames) \in 1..(WrapFrames - 1)
    /\ DissectNew(Tvb("CAN", 1, 33, 170, 2))

NextWrap == WrapFirst \/ WrapNext

SpecWrap == Init /\ [][NextWrap]_vars

(***************************************************************************)
(* One link, one message at a time, followed further: First Frames         *)
(* declaring 4 or 6 bytes and carrying 1, Consecutive Frames carrying 2.   *)
(***************************************************************************)
SeqInputs == {Tvb("CAN", 1, 16, 4, 3), Tvb("CAN", 1, 16, 6, 3)} \cup ConsecutiveFrames

FirstPassSeq ==
    /\ nfirst < MaxSeqFrames
    /\ \E f \in SeqInputs : DissectNew(f)

NextSeq == FirstPassSeq \/ Replay \/ NewSession

SpecSeq == Init /\ [][NextSeq]_vars

(***************************************************************************)
(* Every kind of frame: Single Frames (classic on CAN, once with a payload *)
(* no decoder accepts and once declaring 3 bytes but carrying 1; extended  *)
(* on FlexRay), First Frames (classic, declaring 3 bytes and carrying 1;   *)
(* extended on FlexRay; and one cut after its first byte), a Consecutive   *)
(* Frame carrying 2 bytes (once with a payload no decoder accepts), the    *)
(* undefined types 8 and 15, and CAN frames with the error or the RTR      *)
(* flag.  FlexRay frames start with two one-byte addresses.                *)
(***************************************************************************)
SingleFrames ==
    {Tvb("CAN", 1, 1, 170, 2), Refused(Tvb("CAN", 1, 1, 170, 2)),
     TvbWith("FLEXRAY", 1, <<5, 6>>, 64, 1, 0, 5), Tvb("CAN", 1, 3, 170, 2)}

TypedFirstFrames ==
    {Tvb("CAN", 1, 16, 3, 3), TvbWith("FLEXRAY", 1, <<5, 6>>, 80, 0, 6, 8),
     Tvb("CAN", 1, 16, 0, 1)}

UnknownFrames == {Tvb("CAN", 1, 128, 0, 2), Tvb("CAN", 1, 240, 0, 2)}

FlaggedFrames == {Tvb("CAN", CAN_ERR_FLAG + 1, 16, 4, 3), Tvb("CAN", CAN_RTR_FLAG + 1, 1, 170, 2)}

TypeInputs ==
    SingleFrames \cup TypedFirstFrames
    \cup {Tvb("CAN", 1, 33, 170, 3), Refused(Tvb("CAN", 1, 33, 170, 3))}
    \cup UnknownFrames \cup FlaggedFrames

InitTypes == Init /\ cfg.window = DefaultWindow

FirstPassTypes ==
    /\ nfirst < MaxTypeFrames
    /\ \E f \in TypeInputs : DissectNew(f)

NextTypes == FirstPassTypes \/ Replay \/ NewSession

SpecTypes == InitTypes /\ [][NextTypes]_vars

(***************************************************************************)
(* Address resolution on every link type: Single Frames with one byte of   *)
(* payload, under the preferences as registered, under extended            *)
(* addressing, under a configuration with CAN-ID mapping rules,            *)
(* PDU-transport items and one-byte I-PduM addresses, and under two-byte   *)
(* FlexRay and I-PduM addresses.                                           *)
(***************************************************************************)
\* a row of the CAN address mapping table
Rule(ext, id, mask, src, tgt, ecu) ==
    [extended_address |-> ext, can_id |-> id, can_id_mask |-> mask,
     source_addr_mask |-> src, target_addr_mask |-> tgt, ecu_addr_mask |-> ecu]

\* a row of the PDU transport table
Item(pdu, ssize, sfixed, tsize, tfixed, esize, efixed) ==
    [pdu_id |-> pdu, source_address_size |-> ssize, source_address_fixed |-> sfixed,
     target_address_size |-> tsize, target_address_fixed |-> tfixed,
     ecu_address_size |-> esize, ecu_address_fixed |-> efixed]

Accept == [ok |-> TRUE, err |-> ""]

Reject(err) == [ok |-> FALSE, err |-> err]

\* ~mask of a guint32
Not32(mask) == AllOnes32 - mask

\* a variant that allows 29 bits for every row
update_can_addr_mappings_29bit(rec) ==
    LET width == CAN_EFF_MASK
        bits == IF rec.extended_address THEN "extended IDs (29bit)"
                ELSE "standard IDs (11bit)"
    IN  IF rec.source_addr_mask = 0 /\ rec.target_addr_mask = 0 /\ rec.ecu_addr_mask = 0
        THEN Reject("You need to define the ECU Mask OR Source Mask/Target Mask!")
        ELSE IF (rec.source_addr_mask # 0 \/ rec.target_addr_mask # 0)
                /\ rec.ecu_addr_mask # 0
        THEN Reject("You can only use Source Address Mask/Target Address Mask OR ECU Address Mask! Not both at the same time!")
        ELSE IF (rec.source_addr_mask = 0 \/ rec.target_addr_mask = 0)
                /\ rec.ecu_addr_mask = 0
        THEN Reject("You can only use Source Address Mask and Target Address Mask in combination!")
        ELSE IF BitAnd32(rec.source_addr_mask, Not32(width)) # 0
        THEN Reject("Source Address Mask covering bits not allowed for " \o bits \o "!")
        ELSE IF BitAnd32(rec.target_addr_mask, Not32(width)) # 0
        THEN Reject("Target Address Mask covering bits not allowed for " \o bits \o "!")
        ELSE IF BitAnd32(rec.ecu_addr_mask, Not32(width)) # 0
        THEN Reject("ECU Address Mask covering bits not allowed for " \o bits \o "!")
        ELSE Accept

\* a variant that accepts a row with only one of source and target
update_pdu_transport_item_lenient(rec) ==
    LET source_address_configured ==
            rec.source_address_size # 0 \/ rec.source_address_fixed # ISO15765_ADDR_INVALID
        target_address_configured ==
            rec.target_address_size # 0 \/ rec.target_address_fixed # ISO15765_ADDR_INVALID
        ecu_address_configured ==
            rec.ecu_address_size # 0 \/ rec.ecu_address_fixed # ISO15765_ADDR_INVALID
    IN  IF rec.source_address_size # 0 /\ rec.source_address_fixed # ISO15765_ADDR_INVALID
        THEN Reject("You can either set the size of the source address or configure a fixed value!")
        ELSE IF rec.target_address_size # 0 /\ rec.target_address_fixed # ISO15765_ADDR_INVALID
        THEN Reject("You can either set the size of the target address or configure a fixed value!")
        ELSE IF rec.ecu_address_size # 0 /\ rec.ecu_address_fixed # ISO15765_ADDR_INVALID
        THEN Reject("You can either set the size of the ecu address or configure a fixed value!")
        ELSE IF ecu_address_configured
                /\ (source_address_configured \/ target_address_configured)
        THEN Reject("You cannot configure an ecu address and a source or target address at the same time!")
        ELSE Accept

\* the update callback of the CAN ID mapping table: whether the row is kept
update_config_can_addr_mappings(rec) ==
    LET width == IF rec.extended_address THEN CAN_EFF_MASK ELSE CAN_SFF_MASK
        bits == IF rec.extended_address THEN "extended IDs (29bit)"
                ELSE "standard IDs (11bit)"
    IN  IF rec.source_addr_mask = 0 /\ rec.target_addr_mask = 0 /\ rec.ecu_addr_mask = 0
        THEN Reject("You need to define the ECU Mask OR Source Mask/Target Mask!")
        ELSE IF (rec.source_addr_mask # 0 \/ rec.target_addr_mask # 0)
                /\ rec.ecu_addr_mask # 0
        THEN Reject("You can only use Source Address Mask/Target Address Mask OR ECU Address Mask! Not both at the same time!")
        ELSE IF (rec.source_addr_mask = 0 \/ rec.target_addr_mask = 0)
                /\ rec.ecu_addr_mask = 0
        THEN Reject("You can only use Source Address Mask and Target Address Mask in combination!")
        ELSE IF BitAnd32(rec.source_addr_mask, Not32(width)) # 0
        THEN Reject("Source Address Mask covering bits not allowed for " \o bits \o "!")
        ELSE IF BitAnd32(rec.target_addr_mask, Not32(width)) # 0
        THEN Reject("Target Address Mask covering bits not allowed for " \o bits \o "!")
        ELSE IF BitAnd32(rec.ecu_addr_mask, Not32(width)) # 0
        THEN Reject("ECU Address Mask covering bits not allowed for " \o bits \o "!")
        ELSE Accept

\* the update callback of the PDU transport table: whether the row is kept
update_config_pdu_transport_config_item(rec) ==
    LET source_address_configured ==
            rec.source_address_size # 0 \/ rec.source_address_fixed # ISO15765_ADDR_INVALID
        target_address_configured ==
            rec.target_address_size # 0 \/ rec.target_address_fixed # ISO15765_ADDR_INVALID
        ecu_address_configured ==
            rec.ecu_address_size # 0 \/ rec.ecu_address_fixed # ISO15765_ADDR_INVALID
    IN  IF rec.source_address_size # 0 /\ rec.source_address_fixed # ISO15765_ADDR_INVALID
        THEN Reject("You can either set the size of the source address or configure a fixed value!")
        ELSE IF rec.target_address_size # 0 /\ rec.target_address_fixed # ISO15765_ADDR_INVALID
        THEN Reject("You can either set the size of the target address or configure a fixed value!")
        ELSE IF rec.ecu_address_size # 0 /\ rec.ecu_address_fixed # ISO15765_ADDR_INVALID
        THEN Reject("You can either set the size of the ecu address or configure a fixed value!")
        ELSE IF ecu_address_configured
                /\ (source_address_configured \/ target_address_configured)
        THEN Reject("You cannot configure an ecu address and a source or target address at the same time!")
        ELSE IF (source_address_configured /\ ~target_address_configured)
                \/ (~source_address_configured /\ target_address_configured)
        THEN Reject("You can only configure source and target address at the same time but not only one of them!")
        ELSE Accept

\* the rows of a table the update callback keeps, in their order
RECURSIVE Loaded(_, _)
Loaded(rows, kept) ==
    IF rows = <<>> THEN <<>>
    ELSE IF kept[1] THEN <<rows[1]>> \o Loaded(Tail(rows), Tail(kept))
    ELSE Loaded(Tail(rows), Tail(kept))

\* the rows entered: 0x700/0x7F0 with an ECU mask, 0x600/0x700 with source and
\* target masks, 0x500/0x700 with no mask at all (not kept), 0x700/0x700 with
\* source and target masks, and 0x700/0x7F0 for extended identifiers with an
\* ECU mask
EnteredRules ==
    <<Rule(FALSE, 1792, 2032, 0, 0, 15), Rule(FALSE, 1536, 1792, 240, 15, 0),
      Rule(FALSE, 1280, 1792, 0, 0, 0), Rule(FALSE, 1792, 1792, 240, 15, 0),
      Rule(TRUE, 1792, 2032, 0, 0, 240)>>

AddrRules ==
    Loaded(EnteredRules,
           [i \in 1..Len(EnteredRules) |-> update_config_can_addr_mappings(EnteredRules[i]).ok])

\* the rows entered: PDU 1 with a one-byte ECU address, PDU 2 with nothing
\* configured, PDU 3 with a one-byte source address and the fixed target
\* address 9, PDU 5 with a four-byte ECU address, PDU 6 with a source address
\* only (not kept), PDU 7 with the fixed ECU address 0x42, PDU 8 with a
\* one-byte source and a two-byte target address, PDU 9 with the fixed source
\* address 3 and target address 4, PDU 10 with the fixed source address 3 and a
\* one-byte target address
EnteredItems ==
    <<Item(1, 0, ISO15765_ADDR_INVALID, 0, ISO15765_ADDR_INVALID, 1, ISO15765_ADDR_INVALID),
      Item(2, 0, ISO15765_ADDR_INVALID, 0, ISO15765_ADDR_INVALID, 0, ISO15765_ADDR_INVALID),
      Item(3, 1, ISO15765_ADDR_INVALID, 0, 9, 0, ISO15765_ADDR_INVALID),
      Item(5, 0, ISO15765_ADDR_INVALID, 0, ISO15765_ADDR_INVALID, 4, ISO15765_ADDR_INVALID),
      Item(6, 1, ISO15765_ADDR_INVALID, 0, ISO15765_ADDR_INVALID, 0, ISO15765_ADDR_INVALID),
      Item(7, 0, ISO15765_ADDR_INVALID, 0, ISO15765_ADDR_INVALID, 0, 66),
      Item(8, 1, ISO15765_ADDR_INVALID, 2, ISO15765_ADDR_INVALID, 0, ISO15765_ADDR_INVALID),
      Item(9, 0, 3, 0, 4, 0, ISO15765_ADDR_INVALID),
      Item(10, 0, 3, 1, ISO15765_ADDR_INVALID, 0, ISO15765_ADDR_INVALID)>>

AddrItems ==
    Loaded(EnteredItems,
           [i \in 1..Len(EnteredItems) |->
                update_config_pdu_transport_config_item(EnteredItems[i]).ok])

AddrConfigs ==
    {Config(DefaultWindow),
     ConfigWith(DefaultWindow, EXTENDED_ADDRESSING, ONE_BYTE_ADDRESSING,
                ZERO_BYTE_ADDRESSING, <<>>, <<>>),
     ConfigWith(DefaultWindow, NORMAL_ADDRESSING, ONE_BYTE_ADDRESSING,
                ONE_BYTE_ADDRESSING, AddrRules, AddrItems),
     ConfigWith(DefaultWindow, NORMAL_ADDRESSING, TWO_BYTE_ADDRESSING,
                TWO_BYTE_ADDRESSING, <<>>, <<>>)}

\* a Single Frame with one byte of payload behind the bytes of head
AddrFrame(bus, id, head) == TvbWith(bus, id, head, 1, 170, 0, Len(head) + 2)

AddrInputs ==
    {AddrFrame(bus, id, head) :
        bus \in {"CAN"}, id \in {1, 1797, 1554, 1281}, head \in {<<>>, <<7>>}}
    \cup {AddrFrame("CAN", id, <<>>) : id \in {2037, 67333, CAN_EFF_FLAG + 1797}}
    \cup {AddrFrame("LIN", 1, <<7>>), AddrFrame("LIN", 1, <<>>),
          AddrFrame("CAN_FD", 1, <<7>>), AddrFrame("CAN_FD", 1, <<>>),
          AddrFrame("FLEXRAY", 1, <<5, 6>>)}
    \cup {AddrFrame("IPDUM", 1, head) : head \in {<<>>, <<7>>, <<5, 6>>, <<1, 2, 3, 4>>}}
    \cup {AddrFrame("FLEXRAY", 1, <<1, 2, 3, 4>>)}
    \cup {AddrFrame("PDU_TRANSPORT", 1, <<9>>), AddrFrame("PDU_TRANSPORT", 2, <<>>),
          AddrFrame("PDU_TRANSPORT", 3, <<4>>), AddrFrame("PDU_TRANSPORT", 4, <<>>),
          AddrFrame("PDU_TRANSPORT", 5, <<255, 255, 255, 255>>),
          AddrFrame("PDU_TRANSPORT", 5, <<128, 0, 0, 1>>),
          AddrFrame("PDU_TRANSPORT", 6, <<>>), AddrFrame("PDU_TRANSPORT", 7, <<>>),
          AddrFrame("PDU_TRANSPORT", 8, <<4, 1, 2>>), AddrFrame("PDU_TRANSPORT", 9, <<>>),
          AddrFrame("PDU_TRANSPORT", 10, <<8>>)}

InitAddr ==
    /\ msg_seqid = 0
    /\ iso15765_frame_table = EmptyMap
    /\ frames = <<>>
    /\ fragment_table = EmptyMap
    /\ reassembled_table = EmptyMap
    /\ cfg \in AddrConfigs
    /\ nfirst = 0
    /\ out = NoOut

\* the frames offered are those whose PCI byte follows the address bytes the
\* preferences make the dissector read
FirstPassAddr ==
    /\ nfirst < MaxAddrFrames
    /\ \E f \in AddrInputs :
          /\ Len(f.head) = Addresses(f).ae
          /\ DissectNew(f)

NextAddr == FirstPassAddr \/ Replay \/ NewSession

SpecAddr == InitAddr /\ [][NextAddr]_vars

(***************************************************************************)
(* The update callbacks of the two tables, applied to rows as they are     *)
(* entered: every combination of absent and present masks (in the low 11   *)
(* bits, bit 11, bit 29, bit 31) for a CAN ID mapping row, and of absent   *)
(* and present sizes and fixed values for a PDU transport row.  The        *)
(* callbacks answer and change nothing.                                    *)
(***************************************************************************)
EnteredMasks == {0, 15, 2048, 2 ^ 29, MinInt32}

CandidateRules ==
    {Rule(ext, 1792, 2032, src, tgt, ecu) :
        ext \in BOOLEAN, src \in EnteredMasks, tgt \in EnteredMasks, ecu \in EnteredMasks}

CandidateItems ==
    {Item(1, ssize, sfixed, tsize, tfixed, esize, efixed) :
        ssize \in {0, 1}, sfixed \in {ISO15765_ADDR_INVALID, 3},
        tsize \in {0, 2}, tfixed \in {ISO15765_ADDR_INVALID, 0},
        esize \in {0, 1}, efixed \in {ISO15765_ADDR_INVALID, 66}}

Answered(kind, rec, answer) ==
    /\ out' = [pass |-> kind, rec |-> rec, ok |-> answer.ok, err |-> answer.err]
    /\ UNCHANGED <<msg_seqid, iso15765_frame_table, frames, fragment_table,
                   reassembled_table, cfg, nfirst>>

UpdateCanAddrMapping ==
    \E rec \in CandidateRules : Answered("can_row", rec, update_config_can_addr_mappings(rec))

UpdatePduTransportItem ==
    \E rec \in CandidateItems :
        Answered("pdu_row", rec, update_config_pdu_transport_config_item(rec))

NextConfig == UpdateCanAddrMapping \/ UpdatePduTransportItem

SpecConfig == Init /\ [][NextConfig]_vars

(***************************************************************************)
(* Classification of Single Frames and First Frames, behind no address     *)
(* byte (CAN, normal addressing) and behind one (CAN under extended        *)
(* addressing, LIN): Single Frames of 8 and of 12 bytes with low nibble 0, *)
(* 3 and 7 and a length byte of 5 or 9; First Frames with the control      *)
(* words 0x1000, 0x1001, 0x1034, 0x10FF, 0x1200 .. 0x12FF, 0x1F00 ..       *)
(* 0x1FFF, each followed by the bytes 00 01 11 70 (70000, big endian).     *)
(***************************************************************************)
\* a frame of len bytes in all behind the bytes of head
ClassFrame(bus, head, pci, byte1, len32, len) ==
    TvbWith(bus, 1, head, pci, byte1, len32, Len(head) + len)

ClassHeads == {<<"CAN", <<>>>>, <<"CAN", <<7>>>>, <<"CAN_FD", <<>>>>, <<"LIN", <<7>>>>}

ClassSingleFrames ==
    {ClassFrame(h[1], h[2], pci, byte1, 0, len) :
        h \in ClassHeads, pci \in {0, 3, 7}, byte1 \in {5, 9}, len \in {8, 12}}

ClassFirstFrames ==
    {ClassFrame(h[1], h[2], 16 + high, low, ReadUInt(<<0, 1, 17, 112>>, 0, 4), 8) :
        h \in ClassHeads, high \in {0, 2, 15}, low \in {0, 1, 52, 255}}

ClassConfigs ==
    {Config(DefaultWindow),
     ConfigWith(DefaultWindow, EXTENDED_ADDRESSING, ONE_BYTE_ADDRESSING,
                ZERO_BYTE_ADDRESSING, <<>>, <<>>)}

InitClass ==
    /\ msg_seqid = 0
    /\ iso15765_frame_table = EmptyMap
    /\ frames = <<>>
    /\ fragment_table = EmptyMap
    /\ reassembled_table = EmptyMap
    /\ cfg \in ClassConfigs
    /\ nfirst = 0
    /\ out = NoOut

FirstPassClass ==
    /\ nfirst < MaxClassFrames
    /\ \E f \in ClassSingleFrames \cup ClassFirstFrames :
          /\ Len(f.head) = Addresses(f).ae
          /\ DissectNew(f)

NextClass == FirstPassClass \/ Replay \/ NewSession

SpecClass == InitClass /\ [][NextClass]_vars

(***************************************************************************)
(* The FlexRay segment size limit: First Frames (classic, escaped and      *)
(* extended) and Consecutive Frames on FlexRay behind two one-byte         *)
(* addresses, each with few and with many bytes behind its header, and a   *)
(* First and a Consecutive Frame on CAN, under a limit of 0 (none), 1, 4   *)
(* and 6 bytes.  The headers take 2, 6, 5 and 1 bytes.                     *)
(***************************************************************************)
SegmentLimits == {0, 1, 4, 6}

\* a FlexRay frame with payload bytes behind a header of the given length
SegmentFrame(pci, byte1, len32, header, payload) ==
    TvbWith("FLEXRAY", 1, <<5, 6>>, pci, byte1, len32, 2 + header + payload)

SegmentInputs ==
    {SegmentFrame(16, 20, 0, 2, k) : k \in {1, 5}}
    \cup {SegmentFrame(33, 170, 0, 1, k) : k \in {1, 5}}
    \cup {SegmentFrame(80, 0, 20, 5, k) : k \in {0, 3}}
    \cup {SegmentFrame(16, 0, 20, 6, 2)}
    \cup {Tvb("CAN", 1, 16, 20, 8), Tvb("CAN", 1, 33, 170, 8)}

SegmentConfigs ==
    {[Config(DefaultWindow) EXCEPT !.flexray_segment_size_limit = l] : l \in SegmentLimits}

InitSegment ==
    /\ msg_seqid = 0
    /\ iso15765_frame_table = EmptyMap
    /\ frames = <<>>
    /\ fragment_table = EmptyMap
    /\ reassembled_table = EmptyMap
    /\ cfg \in SegmentConfigs
    /\ nfirst = 0
    /\ out = NoOut

FirstPassSegment ==
    /\ nfirst < MaxSegmentFrames
    /\ \E f \in SegmentInputs :
          /\ Len(f.head) = Addresses(f).ae
          /\ DissectNew(f)

NextSegment == FirstPassSegment \/ Replay \/ NewSession

SpecSegment == InitSegment /\ [][NextSegment]_vars

(***************************************************************************)
(* Flow Control frames on CAN with every value of the separation-time      *)
(* byte, and Ack frames on FlexRay (behind two one-byte addresses) with    *)
(* the values on both sides of the microsecond range.                      *)
(***************************************************************************)
\* the four bytes behind byte1 when the first of them is v
StMinFirst(v) == ReadUInt(<<v, 0, 0, 0>>, 0, 4)

FlowInputs ==
    {TvbWith("CAN", 1, <<>>, 48, 0, StMinFirst(v), 3) : v \in 0..255}
    \cup {TvbWith("FLEXRAY", 1, <<5, 6>>, 112, 0, StMinFirst(v), 6) : v \in {10, 240, 241, 249, 250}}

FirstPassFlow ==
    /\ nfirst < MaxFlowFrames
    /\ \E f \in FlowInputs : DissectNew(f)

NextFlow == FirstPassFlow \/ Replay \/ NewSession

SpecFlow == InitTypes /\ [][NextFlow]_vars

(***************************************************************************)
(* One message delivered in order on one link and nothing else: a First    *)
(* Frame declaring 5, 37 or 4095 bytes and carrying 1, then Consecutive    *)
(* Frames with the sequence numbers 1, 2, ..., 15, 0, 1, ... carrying 2    *)
(* bytes each, until the bytes sent reach the declared length; under a     *)
(* window of 0, 1, 8, 0xFFFFFFFE and 0xFFFFFFFF.                           *)
(***************************************************************************)
OrderWindows == {0, 1, DefaultWindow, AllOnes32 - 1, AllOnes32}

OrderLengths == {5, 37, 4095}

\* the First Frame declaring n bytes
OrderFirstFrame(n) == Tvb("CAN", 1, 16 + (n \div 256), n % 256, 3)

\* the k-th Consecutive Frame of a message
OrderConsecutiveFrame(k) == Tvb("CAN", 1, 32 + (k % 16), 170, 3)

\* the bytes the frames of the file carry behind their headers
RECURSIVE BytesSent(_, _)
BytesSent(fs, n) ==
    IF n = 0 THEN 0
    ELSE BytesSent(fs, n - 1) + (fs[n].tvb.tvb_len - Classify(fs[n].tvb, 0).offset)

InitOrder ==
    /\ msg_seqid = 0
    /\ iso15765_frame_table = EmptyMap
    /\ frames = <<>>
    /\ fragment_table = EmptyMap
    /\ reassembled_table = EmptyMap
    /\ cfg \in {Config(w) : w \in OrderWindows}
    /\ nfirst = 0
    /\ out = NoOut

OrderFirst ==
    /\ frames = <<>>
    /\ \E n \in OrderLengths : DissectNew(OrderFirstFrame(n))

OrderNext ==
    /\ Len(frames) \in 1..(MaxOrderFrames - 1)
    /\ BytesSent(frames, Len(frames)) < Classify(frames[1].tvb, 0).full_len
    /\ DissectNew(OrderConsecutiveFrame(Len(frames)))

NextOrder == OrderFirst \/ OrderNext \/ Replay

SpecOrder == InitOrder /\ [][NextOrder]_vars

(***************************************************************************)
(* Flow Control and Ack frames among the frames of a message: a First      *)
(* Frame declaring 3 bytes and carrying 1, a Consecutive Frame carrying 2, *)
(* Flow Control frames on CAN (one of them cut behind the block size) and  *)
(* an Ack frame on FlexRay behind two one-byte addresses.                  *)
(***************************************************************************)
ControlInputs ==
    {Tvb("CAN", 1, 16, 3, 3), Tvb("CAN", 1, 33, 170, 3),
     Tvb("CAN", 1, 48, 0, 3), TvbWith("CAN", 1, <<>>, 49, 8, StMinFirst(245), 3),
     Tvb("CAN", 1, 48, 0, 2),
     TvbWith("FLEXRAY", 1, <<5, 6>>, 112, 0, StMinFirst(10), 6)}

FirstPassControl ==
    /\ nfirst < MaxControlFrames
    /\ \E f \in ControlInputs : DissectNew(f)

NextControl == FirstPassControl \/ Replay \/ NewSession

SpecControl == InitTypes /\ [][NextControl]_vars

(***************************************************************************)
(* Vocabulary of the properties                                            *)
(***************************************************************************)
MessageType(t) == masked_guint16_value(t.pci, ISO15765_MESSAGE_TYPE_MASK)

IsFirstFrame(t) ==
    MessageType(t) \in {ISO15765_MESSAGE_TYPES_FIRST_FRAME,
                        ISO15765_MESSAGE_TYPES_FR_FIRST_FRAME_EXT}

IsConsecutiveFrame(t) ==
    MessageType(t) \in {ISO15765_MESSAGE_TYPES_CONSECUTIVE_FRAME,
                        ISO15765_MESSAGE_TYPES_FR_CONSECUTIVE_FRAME_2}

LowNibble(t) ==
    IF IsFirstFrame(t) THEN 0
    ELSE masked_guint16_value(t.pci, ISO15765_MESSAGE_SEQUENCE_NUMBER_MASK)

Called == out.pass \in {"first", "replay"}

\* the step just taken is the first dissection of a new frame
FirstPassStep == out'.pass = "first" /\ Len(frames') = Len(frames) + 1

\* ... of a First or Consecutive Frame that found its MessageSequence
FragmentStep == FirstPassStep /\ out'.res.bound /\ out'.res.exception # "assert"

\* the MessageSequence as it was before the step (a First Frame opens it)
Before(s) ==
    IF s \in DOMAIN iso15765_frame_table THEN iso15765_frame_table[s]
    ELSE NewFrame(s, iso15765_frame_table'[s].len)

\* frames before frame n whose first pass bound them to sequence s
EarlierOf(fs, n, s) == {i \in 1..(n - 1) : fs[i].first.bound /\ fs[i].first.seq = s}

MaxOf(S) == CHOOSE x \in S : \A y \in S : y <= x

\* highest expanded id among the fragments of s incorporated before frame n
HighestSeen(fs, n, s) ==
    MaxOf({0} \cup {fs[i].first.frag_id : i \in {j \in EarlierOf(fs, n, s) : fs[j].first.handed}})

RECURSIVE SumLen(_, _, _)
SumLen(fs, n, s) ==
    IF n = 0 THEN 0
    ELSE SumLen(fs, n - 1, s)
         + (IF fs[n].first.bound /\ fs[n].first.seq = s /\ fs[n].first.handed
            THEN fs[n].first.len ELSE 0)

Errored(fr) == fr.error
Complete(fr) == fr.complete /\ ~fr.error

(***************************************************************************)
(* C1: a first-pass Consecutive Frame on link identifier X is bound to the *)
(* sequence opened by the most recent first-pass First Frame on X, never   *)
(* to one opened on another identifier.                                    *)
(***************************************************************************)
C1_BoundToOwnLink ==
    (out.pass = "first" /\ IsConsecutiveFrame(out.tvb) /\ out.res.bound) =>
        LET own == {i \in 1..Len(frames) :
                      IsFirstFrame(frames[i].tvb)
                      /\ frames[i].tvb.frame_id = out.tvb.frame_id}
        IN  own # {} => out.res.seq = frames[MaxOf(own)].first.seq

(***************************************************************************)
(* C2: a first-pass Consecutive Frame on a link identifier with no First   *)
(* Frame seen in the session changes no MessageSequence, raises no error   *)
(* and is not dispatched.                                                  *)
(***************************************************************************)
C2_OrphanInert ==
    [][(FirstPassStep /\ IsConsecutiveFrame(out'.tvb)
        /\ ~\E i \in 1..Len(frames) :
               IsFirstFrame(frames[i].tvb) /\ frames[i].tvb.frame_id = out'.tvb.frame_id)
       => (/\ iso15765_frame_table' = iso15765_frame_table
           /\ out'.res.exception = "none"
           /\ out'.res.dispatch = "none")]_vars

(***************************************************************************)
(* C3: on the first pass a fragment is terminal exactly when the bytes of  *)
(* its sequence first reach the declared length; it is trimmed so that the *)
(* lengths handed to reassembly sum to the declared length, the sequence   *)
(* is Complete and the frame is flagged terminal.                          *)
(***************************************************************************)
C3_TerminalAtFirstReach ==
    [][(FragmentStep /\ out'.res.handed) =>
         LET s == out'.res.seq
             fr == iso15765_frame_table'[s]
         IN  /\ out'.res.last <=> (Before(s).offset < fr.len /\ fr.offset >= fr.len)
             /\ out'.res.last => (fr.complete /\ SumLen(frames', Len(frames'), s) = fr.len)]_vars

(***************************************************************************)
(* C4: Complete and Errored are terminal: a Complete sequence keeps its    *)
(* bytes accumulated, highest fragment id and completion flag and never    *)
(* becomes Errored; an Errored one stays Errored.                          *)
(***************************************************************************)
C4_TerminalStates ==
    [][\A s \in (DOMAIN iso15765_frame_table) \cap (DOMAIN iso15765_frame_table') :
         LET a == iso15765_frame_table[s]
             b == iso15765_frame_table'[s]
         IN  /\ Complete(a) => (/\ b.offset = a.offset
                                /\ b.last_frag_id = a.last_frag_id
                                /\ Complete(b))
             /\ Errored(a) => Errored(b)]_vars

(***************************************************************************)
(* C5 as stated: a first-pass fragment moves its sequence to Errored       *)
(* exactly when its expanded id is greater than the highest expanded id    *)
(* seen before in the sequence plus the window.                            *)
(***************************************************************************)
ExceedsWindow(frag_id, highest) ==
    IF cfg.window < 0 THEN FALSE ELSE frag_id > highest + cfg.window

FallsBehind(frag_id, highest) ==
    IF cfg.window >= 0 THEN frag_id + cfg.window < highest
    ELSE frag_id + cfg.window >= 0 /\ frag_id + cfg.window < highest

C6_ExpandedId ==
    (out.pass = "first" /\ out.res.bound /\ out.res.exception # "assert") =>
        out.res.frag_id =
            LowNibble(out.tvb)
            + 16 * Cardinality({i \in EarlierOf(frames, Len(frames), out.res.seq) :
                                  LowNibble(frames[i].tvb) = LowNibble(out.tvb)})

(***************************************************************************)
(* C7: dissecting a frame already seen changes neither the sequence-id     *)
(* generator, nor any MessageSequence, nor any frame's cached sequence id, *)
(* expanded fragment id and terminal flag.                                 *)
(***************************************************************************)
C7_ReplayReadOnly ==
    [][out'.pass = "replay" =>
         (/\ msg_seqid' = msg_seqid
          /\ iso15765_frame_table' = iso15765_frame_table
          /\ frames' = frames)]_vars

\* a Consecutive Frame bound to a sequence has been dissected again
C7_Witness ==
    /\ out.pass = "replay"
    /\ IsConsecutiveFrame(out.tvb)
    /\ out.res.bound
    /\ out.res.handed

(***************************************************************************)
(* C8: dissecting a frame again gives what its first pass gave: sequence   *)
(* id, expanded fragment id, whether it is handed to reassembly, and the   *)
(* dispatch (for a frame whose first pass ran to its end).                 *)
(***************************************************************************)
C8_ReplaySameResult ==
    (out.pass = "replay" /\ frames[out.num].first.exception = "none") =>
        LET was == frames[out.num].first
        IN  /\ out.res.seq = was.seq
            /\ out.res.frag_id = was.frag_id
            /\ out.res.handed = was.handed
            /\ out.res.dispatch = was.dispatch

(***************************************************************************)
(* C9: a new session starts from the initial state: no MessageSequence,    *)
(* the sequence-id generator restarted, so its first First Frame gets the  *)
(* id the first First Frame of a fresh engine gets.                        *)
(***************************************************************************)
C9_SessionReset ==
    /\ frames = <<>> => (msg_seqid = 0 /\ iso15765_frame_table = EmptyMap)
    /\ (out.pass = "first" /\ IsFirstFrame(out.tvb)
        /\ ~\E i \in 1..(Len(frames) - 1) : IsFirstFrame(frames[i].tvb))
       => out.res.seq = 1

(***************************************************************************)
(* C10: a fragment of an Errored sequence, dissected on the first pass or  *)
(* again, is not handed to reassembly, yields no reassembled message, and  *)
(* its bytes go to the generic sink.                                       *)
(***************************************************************************)
C10_ErroredNeverDelivered ==
    (Called /\ out.res.bound /\ out.res.exception = "none"
     /\ iso15765_frame_table[out.res.seq].error) =>
        (/\ ~out.res.handed
         /\ ~out.res.new_tvb
         /\ out.res.dispatch = "sink")

\* the frame that delivered the reassembled message is dissected again after
\* its sequence became Errored
C10_Witness ==
    /\ out.pass = "replay"
    /\ out.res.bound
    /\ iso15765_frame_table[out.res.seq].error
    /\ frames[out.num].first.dispatch = "decoder"

(***************************************************************************)
(* C11: an Errored sequence is frozen: whatever frame is dissected next,   *)
(* its bytes accumulated, highest fragment id and completion flag stay     *)
(* as they are and its error flag stays set.                               *)
(***************************************************************************)
C11_ErroredFrozen ==
    [][\A s \in (DOMAIN iso15765_frame_table) \cap (DOMAIN iso15765_frame_table') :
         LET a == iso15765_frame_table[s]
             b == iso15765_frame_table'[s]
         IN  Errored(a) => (/\ b.offset = a.offset
                            /\ b.last_frag_id = a.last_frag_id
                            /\ b.complete = a.complete
                            /\ b.error)]_vars

\* a new frame has been bound to a sequence that an earlier frame made Errored
C11_Witness ==
    /\ out.pass = "first"
    /\ out.res.bound
    /\ \E i \in EarlierOf(frames, Len(frames), out.res.seq) : frames[i].first.errored

\* earlier first-pass fragments of frame n's sequence with frame n's low nibble
SameNibbleBefore(fs, n) ==
    {i \in EarlierOf(fs, n, fs[n].first.seq) : LowNibble(fs[i].tvb) = LowNibble(fs[n].tvb)}

(***************************************************************************)
(* C12: the resource-limit violation is raised for a first-pass fragment   *)
(* only when the wrap count of its low nibble would exceed 255, so that a  *)
(* message of 4096 fragments (256 per nibble) passes.                      *)
(***************************************************************************)
C12_LimitAt4096 ==
    (out.pass = "first" /\ out.res.exception = "assert") =>
        Cardinality(SameNibbleBefore(frames, Len(frames))) > 255

(***************************************************************************)
(* C13: no two first-pass fragments of one sequence are assigned the same  *)
(* expanded fragment id, also after a resource-limit violation.            *)
(***************************************************************************)
C13_NoIdReuse ==
    (out.pass = "first" /\ out.res.bound /\ out.res.exception # "assert") =>
        \A i \in EarlierOf(frames, Len(frames), out.res.seq) :
            frames[i].first.exception = "assert" \/ frames[i].first.frag_id # out.res.frag_id

Open(fr) == ~fr.error /\ ~fr.complete

\* the payload length of a fragment after the segment-size clamp
EffectiveLength(t) == Classify(t, Addresses(t).ae).data_length

(***************************************************************************)
(* C15: while a sequence is Open its bytes accumulated never decrease, and *)
(* every first-pass fragment incorporated into an Open sequence increases  *)
(* them by exactly the fragment's effective payload length.                *)
(***************************************************************************)
C15_BytesMonotone ==
    [][/\ \A s \in (DOMAIN iso15765_frame_table) \cap (DOMAIN iso15765_frame_table') :
            Open(iso15765_frame_table[s]) =>
                iso15765_frame_table'[s].offset >= iso15765_frame_table[s].offset
       /\ (FragmentStep /\ out'.res.handed /\ Open(Before(out'.res.seq))) =>
            iso15765_frame_table'[out'.res.seq].offset =
                Before(out'.res.seq).offset + EffectiveLength(out'.tvb)]_vars

\* a Consecutive Frame has been incorporated into a sequence that was Open and
\* has taken it to or past its declared length
C15_Witness ==
    /\ out.pass = "first"
    /\ IsConsecutiveFrame(out.tvb)
    /\ out.res.handed
    /\ out.res.last
    /\ \A i \in EarlierOf(frames, Len(frames), out.res.seq) :
           frames[i].first.handed /\ ~frames[i].first.last
    /\ iso15765_frame_table[out.res.seq].offset > iso15765_frame_table[out.res.seq].len

\* the message length a First Frame declares
DeclaredLength(t) ==
    IF MessageType(t) = ISO15765_MESSAGE_TYPES_FIRST_FRAME /\ t.pci * 256 + t.byte1 # 4096
    THEN BitAnd(t.pci * 256 + t.byte1, 4095)
    ELSE t.len32

\* a CAN frame with the error or the RTR flag in its identifier
Flagged(t) ==
    t.bus_type \in {"CAN", "CAN_FD"} /\ BitAnd32(t.frame_id, CAN_ERR_FLAG + CAN_RTR_FLAG) # 0

\* the step just taken is the first dissection of a First Frame
FirstFrameStep == FirstPassStep /\ IsFirstFrame(out'.tvb) /\ ~Flagged(out'.tvb)

\* the frame holds the address bytes and the header of its type
HeaderComplete(t) == ~Addresses(t).short /\ ~Classify(t, Addresses(t).ae).short

\* the step has allocated a sequence for the First Frame it dissected: a new
\* identifier above every earlier one, the declared length, and otherwise the
\* zero state with the First Frame itself accounted as fragment 0
AllocatedNow ==
    LET s == out'.res.seq
    IN  /\ s \notin DOMAIN iso15765_frame_table
        /\ s \in DOMAIN iso15765_frame_table'
        /\ s > msg_seqid
        /\ \A t \in DOMAIN iso15765_frame_table : s > t
        /\ iso15765_frame_table'[s].len = DeclaredLength(out'.tvb)
        /\ iso15765_frame_table'[s].offset = EffectiveLength(out'.tvb)
        /\ iso15765_frame_table'[s].last_frag_id = 0
        /\ ~iso15765_frame_table'[s].error
        /\ iso15765_frame_table'[s].frag_id_high = [n \in 0..15 |-> IF n = 0 THEN 1 ELSE 0]

\* no sequence appears in the table in this step
NothingAllocated == DOMAIN iso15765_frame_table' \subseteq DOMAIN iso15765_frame_table

(***************************************************************************)
(* C14 as stated: every first-pass First Frame (type 1 or 5) allocates a   *)
(* new sequence, with an identifier above every earlier one, the declared  *)
(* length and otherwise zero state; nothing else allocates.                *)
(***************************************************************************)
C14_EveryFirstFrameAllocates ==
    [][IF FirstFrameStep
       THEN AllocatedNow ELSE NothingAllocated]_vars

(***************************************************************************)
(* C14 amended: every first-pass First Frame that holds its whole header   *)
(* (the length field included) allocates such a sequence; a truncated one  *)
(* and every other frame allocate nothing.                                 *)
(***************************************************************************)
C14_CompleteFirstFrameAllocates ==
    [][IF FirstFrameStep /\ HeaderComplete(out'.tvb)
       THEN AllocatedNow ELSE NothingAllocated]_vars

\* an extended First Frame on FlexRay has been given the second sequence of the
\* session
C14_Witness ==
    /\ out.pass = "first"
    /\ MessageType(out.tvb) = ISO15765_MESSAGE_TYPES_FR_FIRST_FRAME_EXT
    /\ out.tvb.bus_type = "FLEXRAY"
    /\ Cardinality(DOMAIN iso15765_frame_table) >= 2
    /\ iso15765_frame_table[out.res.seq].len = 6

\* the frame has a PCI byte whose message-type nibble is none of the 8 types
UnknownType(t) ==
    /\ ~Flagged(t)
    /\ ~Addresses(t).short
    /\ t.tvb_len >= Addresses(t).ae + 1
    /\ t.pci \div 16 \in 8..15

\* the sequence-id generator, every sequence and the reassembly tables stay
EngineUnchanged ==
    /\ msg_seqid' = msg_seqid
    /\ iso15765_frame_table' = iso15765_frame_table
    /\ fragment_table' = fragment_table
    /\ reassembled_table' = reassembled_table

(***************************************************************************)
(* C16: a dissection (first pass or replay) of a frame whose message-type  *)
(* nibble is 8..15 reports the frame malformed, dispatches nothing, leaves *)
(* the generator, every sequence and the reassembly tables as they were    *)
(* and binds the frame to no sequence, so that later frames meet the state *)
(* they would have met without it.                                         *)
(***************************************************************************)
C16_UnknownTypeInert ==
    [][(out'.pass \in {"first", "replay"} /\ UnknownType(out'.tvb)) =>
            /\ out'.res.malformed
            /\ out'.res.ret = "ae"
            /\ out'.res.dispatch = "none"
            /\ out'.sent = "none"
            /\ ~out'.data.offered
            /\ EngineUnchanged
            /\ frames'[out'.num].info.seq = 0
            /\ \A i \in 1..Len(frames) : frames'[i] = frames[i]]_vars

\* a frame of type 15 has been dissected while a sequence was Open, and a frame
\* dissected after it
C16_Witness ==
    /\ Len(frames) >= 3
    /\ frames[2].tvb.pci \div 16 = 15
    /\ frames[2].first.malformed
    /\ 1 \in DOMAIN iso15765_frame_table
    /\ IsConsecutiveFrame(frames[3].tvb)
    /\ frames[3].first.handed
    /\ frames[3].first.seq = 1

\* a frame the dissector classifies as a Single Frame, classic or extended
IsSingleFrame(t) ==
    /\ ~Flagged(t)
    /\ ~Addresses(t).short
    /\ t.tvb_len >= Addresses(t).ae + 1
    /\ MessageType(t) \in {ISO15765_MESSAGE_TYPES_SINGLE_FRAME,
                           ISO15765_MESSAGE_TYPES_FR_SINGLE_FRAME_EXT}

\* the step offered the frame's payload as a complete message, without the
\* reassembly block
OfferedComplete ==
    /\ out'.res.ret = "captured"
    /\ out'.res.dispatch = "decoder"
    /\ out'.sent \in {"decoder", "sink"}
    /\ ~out'.res.bound
    /\ ~out'.res.handed

\* the step touched neither the generator, nor a sequence, nor the reassembly
\* tables, nor the record of another frame, and bound the frame to no sequence
Bypassed ==
    /\ EngineUnchanged
    /\ frames'[out'.num].info.seq = 0
    /\ \A i \in 1..Len(frames) : frames'[i] = frames[i]

(***************************************************************************)
(* C17 as stated: every dissection of a Single Frame (type 0 or 4) offers  *)
(* its payload at once as a complete message and leaves the generator and  *)
(* every sequence unchanged, whether or not a message is Open.             *)
(***************************************************************************)
C17_SingleFrameDispatched ==
    [][(out'.pass \in {"first", "replay"} /\ IsSingleFrame(out'.tvb)) =>
            OfferedComplete /\ Bypassed]_vars

(***************************************************************************)
(* C17 amended: a Single Frame that carries the payload bytes it declares  *)
(* is offered at once as a complete message; one that carries fewer ends   *)
(* in a bounds exception and offers nothing; both leave the generator and  *)
(* every sequence unchanged, whether or not a message is Open.             *)
(***************************************************************************)
C17_WholeSingleFrameDispatched ==
    [][(out'.pass \in {"first", "replay"} /\ IsSingleFrame(out'.tvb)) =>
            /\ Bypassed
            /\ IF HeaderComplete(out'.tvb)
               THEN OfferedComplete
               ELSE out'.res.exception = "bounds" /\ out'.sent = "none"]_vars

\* an extended Single Frame on FlexRay has been handed to the decoder while a
\* segmented message was Open
C17_Witness ==
    /\ out.pass = "first"
    /\ MessageType(out.tvb) = ISO15765_MESSAGE_TYPES_FR_SINGLE_FRAME_EXT
    /\ out.sent = "decoder"
    /\ \E s \in DOMAIN iso15765_frame_table :
           /\ Open(iso15765_frame_table[s])
           /\ iso15765_frame_table[s].offset < iso15765_frame_table[s].len

\* the dissection o left a payload to dispatch: that of a Single Frame, or that
\* of a fragment bound to a sequence
YieldsPayload(o) ==
    o.res.ret = "captured" /\ (IsSingleFrame(o.tvb) \/ o.res.bound)

\* the payload is a complete message: a Single Frame or a finished reassembly
CompletePayload(o) ==
    (IsSingleFrame(o.tvb) /\ ~o.res.bound) \/ o.res.new_tvb

\* what the dissection of the same frame does when a decoder accepts its payload
WhenAccepted ==
    Enter([out'.tvb EXCEPT !.accepted = TRUE], out'.num, out'.pass = "replay",
          IF out'.pass = "replay" THEN frames[out'.num].info ELSE NoInfo)

(***************************************************************************)
(* C18: a dissection that yields a payload sends it to exactly one         *)
(* destination: to the next-level decoder only if it is complete (and      *)
(* accepted), to the data dissector if it is an incomplete fragment or no  *)
(* decoder accepts it; a dissection that yields none sends nothing.  The   *)
(* fall-back raises no error and leaves the engine in the state an         *)
(* accepted payload leaves it in.                                          *)
(***************************************************************************)
C18_DispatchedOnce ==
    [][out'.pass \in {"first", "replay"} =>
            /\ (out'.sent = "decoder") <=>
                   (YieldsPayload(out') /\ CompletePayload(out') /\ out'.tvb.accepted)
            /\ (out'.sent = "sink") <=>
                   (YieldsPayload(out') /\ (~CompletePayload(out') \/ ~out'.tvb.accepted))
            /\ (out'.sent = "none") <=> ~YieldsPayload(out')
            /\ out'.data.offered <=> (YieldsPayload(out') /\ CompletePayload(out'))
            /\ (out'.sent = "sink" /\ out'.data.offered) =>
                   /\ out'.res.exception = "none"
                   /\ ~out'.res.malformed
                   /\ msg_seqid' = WhenAccepted.msg_seqid
                   /\ iso15765_frame_table' = WhenAccepted.table
                   /\ fragment_table' = WhenAccepted.ftab
                   /\ reassembled_table' = WhenAccepted.rtab
                   /\ frames'[out'.num].info = WhenAccepted.info]_vars

\* a reassembly finished in a Consecutive Frame whose message no decoder
\* accepts: the message went to the data dissector
C18_Witness ==
    /\ out.pass = "first"
    /\ IsConsecutiveFrame(out.tvb)
    /\ out.res.new_tvb
    /\ ~out.tvb.accepted
    /\ out.data.offered
    /\ out.sent = "sink"

(***************************************************************************)
(* C19: a dissection (first pass or replay) of a CAN frame whose           *)
(* identifier has the error or the RTR flag returns 0 (not consumed),      *)
(* creates no per-frame record, dispatches nothing and leaves the          *)
(* generator, every sequence, the reassembly tables and the records of the *)
(* other frames as they were.                                              *)
(***************************************************************************)
C19_FlaggedCanIgnored ==
    [][(out'.pass \in {"first", "replay"} /\ Flagged(out'.tvb)) =>
            /\ out'.res.ret = "0"
            /\ ~frames'[out'.num].info.present
            /\ out'.res.dispatch = "none"
            /\ out'.sent = "none"
            /\ ~out'.data.offered
            /\ EngineUnchanged
            /\ \A i \in 1..Len(frames) : frames'[i] = frames[i]]_vars

\* an error frame with the bytes of a First Frame came between a First Frame
\* and its Consecutive Frame, which still joined the first sequence
C19_Witness ==
    /\ Len(frames) >= 3
    /\ IsFirstFrame(frames[1].tvb)
    /\ frames[1].first.seq = 1
    /\ Flagged(frames[2].tvb)
    /\ IsFirstFrame(frames[2].tvb)
    /\ frames[2].first.ret = "0"
    /\ IsConsecutiveFrame(frames[3].tvb)
    /\ frames[3].first.handed
    /\ frames[3].first.seq = 1
    /\ msg_seqid = 1

\* the dissection handed a payload to the next-level decoder with no address
\* resolved
UnresolvedHanded ==
    /\ Called
    /\ out.data.offered
    /\ out.data.info.number_of_addresses_valid = 0

(***************************************************************************)
(* C20: whenever a payload is handed to the next-level decoder with no     *)
(* address resolved (validity 0), on any link type, source and target are  *)
(* both the sentinel 0xFFFFFFFF.                                           *)
(***************************************************************************)
C20_UnresolvedIsSentinel ==
    UnresolvedHanded =>
        /\ out.data.info.source_address = ISO15765_ADDR_INVALID
        /\ out.data.info.target_address = ISO15765_ADDR_INVALID

\* the dissection handed a payload to the next-level decoder with what it
\* took for resolved addresses
ResolvedHanded ==
    /\ Called
    /\ out.data.offered
    /\ out.data.info.number_of_addresses_valid \in {1, 2}

(***************************************************************************)
(* C21: under a configuration whose rows all passed the update callbacks,  *)
(* whenever a payload is handed on with validity 1 or 2, neither the       *)
(* source nor the target address is the sentinel 0xFFFFFFFF.               *)
(***************************************************************************)
C21_ResolvedNeverSentinel ==
    ResolvedHanded =>
        /\ out.data.info.source_address # ISO15765_ADDR_INVALID
        /\ out.data.info.target_address # ISO15765_ADDR_INVALID

\* the identifier of a CAN frame as the mapping table sees it: 29 bits with the
\* extended flag, 11 bits without
MappedId(t) ==
    IF t.frame_id < 0 THEN (t.frame_id - MinInt32) % 2 ^ 29 ELSE t.frame_id % 2 ^ 11

\* the bits of v under mask, moved down to bit 0
ShiftedDown(v, mask) ==
    BitAnd(v, mask)
        \div (CHOOSE p \in {2 ^ k : k \in 0..28} : mask % p = 0 /\ (mask \div p) % 2 = 1)

\* the rows of the mapping table that match the frame
MatchingRules(t) ==
    {i \in 1..Len(cfg.config_can_addr_mappings) :
        LET r == cfg.config_can_addr_mappings[i]
        IN  /\ r.extended_address = (t.frame_id < 0)
            /\ BitAnd(r.can_id, r.can_id_mask) = BitAnd(MappedId(t), r.can_id_mask)}

\* a CAN frame without address prefix has been handed on
ImplicitHanded ==
    /\ Called
    /\ out.data.offered
    /\ out.tvb.bus_type \in {"CAN", "CAN_FD"}
    /\ cfg.addressing = NORMAL_ADDRESSING

(***************************************************************************)
(* C22: for a CAN frame without address prefix, the first row in table     *)
(* order whose extended flag and masked identifier match decides: with an  *)
(* ECU mask, source = target = the identifier's bits under it moved down   *)
(* to bit 0, validity 1; else with source and target masks, each address   *)
(* is extracted under its own mask, validity 2; with no matching row,      *)
(* validity 0.                                                             *)
(***************************************************************************)
C22_FirstMatchingRule ==
    ImplicitHanded =>
        LET info == out.data.info
            hits == MatchingRules(out.tvb)
        IN  IF hits = {} THEN info.number_of_addresses_valid = 0
            ELSE LET r == cfg.config_can_addr_mappings[CHOOSE i \in hits : \A j \in hits : i <= j]
                     id == MappedId(out.tvb)
                 IN  IF r.ecu_addr_mask # 0
                     THEN /\ info.number_of_addresses_valid = 1
                          /\ info.source_address = ShiftedDown(id, r.ecu_addr_mask)
                          /\ info.target_address = ShiftedDown(id, r.ecu_addr_mask)
                     ELSE IF r.source_addr_mask # 0 /\ r.target_addr_mask # 0
                     THEN /\ info.number_of_addresses_valid = 2
                          /\ info.source_address = ShiftedDown(id, r.source_addr_mask)
                          /\ info.target_address = ShiftedDown(id, r.target_addr_mask)
                     ELSE info.number_of_addresses_valid = 0

\* identifier 0x705 matches two rows; the first, with the ECU mask, decided
C22_Witness ==
    /\ ImplicitHanded
    /\ out.tvb.frame_id = 1797
    /\ Cardinality(MatchingRules(out.tvb)) = 2
    /\ out.data.info.number_of_addresses_valid = 1
    /\ out.data.info.source_address = 5

\* the row of the mapping table that decides for the frame
FirstMatch(t) ==
    cfg.config_can_addr_mappings[CHOOSE i \in MatchingRules(t) :
                                     \A j \in MatchingRules(t) : i <= j]

\* the frame handed on matched a row that has an ECU mask only
EcuRuleHanded ==
    /\ ImplicitHanded
    /\ MatchingRules(out.tvb) # {}
    /\ FirstMatch(out.tvb).ecu_addr_mask # 0
    /\ FirstMatch(out.tvb).source_addr_mask = 0
    /\ FirstMatch(out.tvb).target_addr_mask = 0

\* validity 2 comes only from a row with both a source and a target mask
PairOnlyFromBothMasks ==
    (ImplicitHanded /\ out.data.info.number_of_addresses_valid = 2) =>
        /\ MatchingRules(out.tvb) # {}
        /\ FirstMatch(out.tvb).source_addr_mask # 0
        /\ FirstMatch(out.tvb).target_addr_mask # 0

(***************************************************************************)
(* C23 as stated: when the matching row has only an ECU mask the result    *)
(* has validity 1, the source address resolved and the target address left *)
(* at the sentinel 0xFFFFFFFF; validity is 2 only when the row has both a  *)
(* source and a target mask.                                               *)
(***************************************************************************)
C23_EcuRuleLeavesTarget ==
    /\ EcuRuleHanded =>
          /\ out.data.info.number_of_addresses_valid = 1
          /\ out.data.info.source_address # ISO15765_ADDR_INVALID
          /\ out.data.info.target_address = ISO15765_ADDR_INVALID
    /\ PairOnlyFromBothMasks

(***************************************************************************)
(* C23 amended: when the matching row has only an ECU mask the result has  *)
(* validity 1 and the one extracted value is both the source and the       *)
(* target address, neither being the sentinel; validity is 2 only when the *)
(* row has both a source and a target mask.                                *)
(***************************************************************************)
C23_EcuRuleSetsBoth ==
    /\ EcuRuleHanded =>
          /\ out.data.info.number_of_addresses_valid = 1
          /\ out.data.info.source_address # ISO15765_ADDR_INVALID
          /\ out.data.info.target_address = out.data.info.source_address
    /\ PairOnlyFromBothMasks

\* identifier 0x705 under the row 0x700/0x7F0 with ECU mask 0x00F: both
\* addresses are 5
C23_Witness ==
    /\ EcuRuleHanded
    /\ out.tvb.frame_id = 1797
    /\ FirstMatch(out.tvb).ecu_addr_mask = 15
    /\ out.data.info.source_address = 5
    /\ out.data.info.target_address = 5

\* the address width configured for the link of a FlexRay or I-PduM frame
ConfiguredWidth(t) ==
    IF t.bus_type = "FLEXRAY" THEN cfg.flexray_addressing ELSE cfg.ipdum_addressing

\* a FlexRay or I-PduM frame has been handed on
WidthHanded ==
    /\ Called
    /\ out.data.offered
    /\ out.tvb.bus_type \in {"FLEXRAY", "IPDUM"}

(***************************************************************************)
(* C24: for a FlexRay or I-PduM frame with configured address width N the  *)
(* PCI byte is read behind exactly 2N address bytes, whatever the global   *)
(* addressing mode; with N > 0 the validity is 2, source being the first N *)
(* bytes and target the next N; for I-PduM with N = 0 no address byte is   *)
(* consumed and the validity is 0.                                         *)
(***************************************************************************)
C24_TwoWidthsConsumed ==
    WidthHanded =>
        LET n == ConfiguredWidth(out.tvb)
            info == out.data.info
        IN  /\ Addresses(out.tvb).ae = 2 * n
            /\ Len(out.tvb.head) = 2 * n
            /\ n > 0 =>
                 /\ info.number_of_addresses_valid = 2
                 /\ info.source_address = ReadUInt(out.tvb.head, 0, n)
                 /\ info.target_address = ReadUInt(out.tvb.head, n, n)
            /\ (out.tvb.bus_type = "IPDUM" /\ n = 0) => info.number_of_addresses_valid = 0

\* a CAN, CAN FD or LIN frame has been handed on
PlainHanded ==
    /\ Called
    /\ out.data.offered
    /\ out.tvb.bus_type \in {"CAN", "CAN_FD", "LIN"}

(***************************************************************************)
(* C25: for a CAN, CAN FD or LIN frame: under extended addressing, and for *)
(* LIN under either mode, the PCI byte is read behind exactly one address  *)
(* byte, whose value is both source and target with validity 1; for CAN    *)
(* and CAN FD under normal addressing the PCI byte is the first byte.      *)
(***************************************************************************)
C25_PlainOrExtended ==
    PlainHanded =>
        IF cfg.addressing = EXTENDED_ADDRESSING \/ out.tvb.bus_type = "LIN"
        THEN /\ Addresses(out.tvb).ae = 1
             /\ Len(out.tvb.head) = 1
             /\ out.data.info.number_of_addresses_valid = 1
             /\ out.data.info.source_address = out.tvb.head[1]
             /\ out.data.info.target_address = out.tvb.head[1]
        ELSE /\ Addresses(out.tvb).ae = 0
             /\ Len(out.tvb.head) = 0

\* a LIN frame under normal addressing has been handed on with its first byte
\* as both addresses
C25_Witness ==
    /\ PlainHanded
    /\ out.tvb.bus_type = "LIN"
    /\ cfg.addressing = NORMAL_ADDRESSING
    /\ out.data.info.number_of_addresses_valid = 1
    /\ out.data.info.source_address = 7
    /\ out.data.info.target_address = 7

\* the rows of the PDU transport table for the frame's PDU id
ConfiguredItems(t) ==
    {i \in 1..Len(cfg.config_pdu_transport_config_items) :
        cfg.config_pdu_transport_config_items[i].pdu_id = t.frame_id}

\* the row find_pdu_transport_config returns
FirstItem(t) ==
    cfg.config_pdu_transport_config_items[CHOOSE i \in ConfiguredItems(t) :
                                              \A j \in ConfiguredItems(t) : i <= j]

\* a PDU transport frame with a configured PDU id has been handed on
ConfiguredPduHanded ==
    /\ Called
    /\ out.data.offered
    /\ out.tvb.bus_type = "PDU_TRANSPORT"
    /\ ConfiguredItems(out.tvb) # {}

(***************************************************************************)
(* C26: for a PDU transport frame whose PDU id is configured, the row      *)
(* selects one of: no addressing (validity 0, no prefix byte); a single    *)
(* address (validity 1, source = target, read from a prefix of the         *)
(* configured size or taken from the fixed value without prefix); a source *)
(* and a target (validity 2, each read from its prefix, source first, or   *)
(* taken from its fixed value).  The prefix is as long as the sizes of the *)
(* fields read add up to.                                                  *)
(***************************************************************************)
C26_PduTransportOutcomes ==
    ConfiguredPduHanded =>
        LET c == FirstItem(out.tvb)
            info == out.data.info
            head == out.tvb.head
        IN  IF c.ecu_address_size # 0
            THEN /\ info.number_of_addresses_valid = 1
                 /\ info.source_address = ReadUInt(head, 0, c.ecu_address_size)
                 /\ info.target_address = info.source_address
                 /\ Len(head) = c.ecu_address_size
            ELSE IF c.ecu_address_fixed # ISO15765_ADDR_INVALID
            THEN /\ info.number_of_addresses_valid = 1
                 /\ info.source_address = c.ecu_address_fixed
                 /\ info.target_address = c.ecu_address_fixed
                 /\ Len(head) = 0
            ELSE IF /\ c.source_address_size = 0
                    /\ c.source_address_fixed = ISO15765_ADDR_INVALID
                    /\ c.target_address_size = 0
                    /\ c.target_address_fixed = ISO15765_ADDR_INVALID
            THEN /\ info.number_of_addresses_valid = 0
                 /\ Len(head) = 0
            ELSE /\ info.number_of_addresses_valid = 2
                 /\ info.source_address =
                        IF c.source_address_size # 0
                        THEN ReadUInt(head, 0, c.source_address_size)
                        ELSE c.source_address_fixed
                 /\ info.target_address =
                        IF c.target_address_size # 0
                        THEN ReadUInt(head, c.source_address_size, c.target_address_size)
                        ELSE c.target_address_fixed
                 /\ Len(head) = c.source_address_size + c.target_address_size

\* PDU 8: a one-byte source address followed by a two-byte target address
C26_Witness ==
    /\ ConfiguredPduHanded
    /\ out.tvb.frame_id = 8
    /\ out.data.info.number_of_addresses_valid = 2
    /\ out.data.info.source_address = 4
    /\ out.data.info.target_address = 258

\* an address of a PDU transport row is not configured at all
Unconfigured(size, fixed) == size = 0 /\ fixed = ISO15765_ADDR_INVALID

\* an address of a PDU transport row is given by a size or by a fixed value,
\* not both
SizeXorFixed(size, fixed) == (size # 0) # (fixed # ISO15765_ADDR_INVALID)

\* the three shapes of a PDU transport row
NoAddressing(rec) ==
    /\ Unconfigured(rec.source_address_size, rec.source_address_fixed)
    /\ Unconfigured(rec.target_address_size, rec.target_address_fixed)
    /\ Unconfigured(rec.ecu_address_size, rec.ecu_address_fixed)

SingleAddress(rec) ==
    /\ SizeXorFixed(rec.ecu_address_size, rec.ecu_address_fixed)
    /\ Unconfigured(rec.source_address_size, rec.source_address_fixed)
    /\ Unconfigured(rec.target_address_size, rec.target_address_fixed)

SourceAndTarget(rec) ==
    /\ SizeXorFixed(rec.source_address_size, rec.source_address_fixed)
    /\ SizeXorFixed(rec.target_address_size, rec.target_address_fixed)
    /\ Unconfigured(rec.ecu_address_size, rec.ecu_address_fixed)

(***************************************************************************)
(* C27: the update callback accepts a PDU transport row if and only if the *)
(* row is one of: no addressing; a single address by size or by fixed      *)
(* value (not both) with neither source nor target; a source and a target, *)
(* each by size or by fixed value (not both), with no single address.      *)
(* Every other row is rejected with an error message.                      *)
(***************************************************************************)
C27_PduRowAccepted ==
    out.pass = "pdu_row" =>
        /\ out.ok <=> (NoAddressing(out.rec) \/ SingleAddress(out.rec)
                       \/ SourceAndTarget(out.rec))
        /\ out.ok <=> (out.err = "")

\* a row with a source address size and no target address has been rejected
C27_Witness ==
    /\ out.pass = "pdu_row"
    /\ ~out.ok
    /\ out.err # ""
    /\ out.rec.source_address_size = 1
    /\ Unconfigured(out.rec.target_address_size, out.rec.target_address_fixed)
    /\ Unconfigured(out.rec.ecu_address_size, out.rec.ecu_address_fixed)
    /\ out.rec.source_address_fixed = ISO15765_ADDR_INVALID

\* the mask is absent or lies in the identifier bits of the row's kind
WithinWidth(mask, ext) == mask >= 0 /\ mask < (IF ext THEN 2 ^ 29 ELSE 2 ^ 11)

(***************************************************************************)
(* C28: the update callback accepts a CAN ID mapping row if and only if    *)
(* the row has either an ECU mask alone or both a source and a target mask *)
(* (not ECU with source or target, not one of source and target alone, not *)
(* none), and every mask lies within the identifier's width: 29 bits with  *)
(* the extended flag, 11 bits without.                                     *)
(***************************************************************************)
C28_CanRowAccepted ==
    out.pass = "can_row" =>
        LET rec == out.rec
            ecu_alone == rec.ecu_addr_mask # 0 /\ rec.source_addr_mask = 0
                         /\ rec.target_addr_mask = 0
            both == rec.ecu_addr_mask = 0 /\ rec.source_addr_mask # 0
                    /\ rec.target_addr_mask # 0
        IN  /\ out.ok <=>
                  /\ ecu_alone \/ both
                  /\ WithinWidth(rec.source_addr_mask, rec.extended_address)
                  /\ WithinWidth(rec.target_addr_mask, rec.extended_address)
                  /\ WithinWidth(rec.ecu_addr_mask, rec.extended_address)
            /\ out.ok <=> (out.err = "")

\* a standard row whose ECU mask is bit 11 has been rejected, the same mask
\* being within the width of an extended row
C28_Witness ==
    /\ out.pass = "can_row"
    /\ ~out.rec.extended_address
    /\ out.rec.ecu_addr_mask = 2048
    /\ out.rec.source_addr_mask = 0
    /\ out.rec.target_addr_mask = 0
    /\ ~out.ok
    /\ update_config_can_addr_mappings([out.rec EXCEPT !.extended_address = TRUE]).ok

\* a classic Single Frame has been dissected and its payload dispatched
SingleFrameHanded ==
    /\ Called
    /\ ~Flagged(out.tvb)
    /\ MessageType(out.tvb) = ISO15765_MESSAGE_TYPES_SINGLE_FRAME
    /\ out.next_tvb.present

(***************************************************************************)
(* C29: the payload of a Single Frame: with a low nibble L # 0 in the PCI  *)
(* byte it is L bytes long and starts 1 byte behind the address bytes;     *)
(* with a low nibble of 0 in a frame longer than 8 bytes its length is the *)
(* value of the byte after the PCI byte and it starts 2 bytes behind the   *)
(* address bytes.                                                          *)
(***************************************************************************)
C29_SingleFramePayload ==
    SingleFrameHanded =>
        LET L == out.tvb.pci % 16
            ae == Len(out.tvb.head)
        IN  /\ L # 0 =>
                 /\ out.next_tvb.length = L
                 /\ out.next_tvb.offset = ae + 1
            /\ (L = 0 /\ out.tvb.frame_length > 8) =>
                 /\ out.next_tvb.length = out.tvb.byte1
                 /\ out.next_tvb.offset = ae + 2

\* a 12-byte CAN FD Single Frame with low nibble 0 and length byte 9
C29_Witness ==
    /\ SingleFrameHanded
    /\ out.tvb.bus_type = "CAN_FD"
    /\ out.tvb.pci = 0
    /\ out.tvb.frame_length = 12
    /\ out.next_tvb.length = 9
    /\ out.next_tvb.offset = 2

\* a classic First Frame has been dissected and bound to its sequence
FirstFrameBound ==
    /\ Called
    /\ ~Flagged(out.tvb)
    /\ MessageType(out.tvb) = ISO15765_MESSAGE_TYPES_FIRST_FRAME
    /\ out.res.bound
    /\ out.res.seq \in DOMAIN iso15765_frame_table

\* the 2-byte control word of a First Frame
ControlWord(t) == t.pci * 256 + t.byte1

(***************************************************************************)
(* C30: a First Frame declares as total length the low 12 bits of its      *)
(* 2-byte control word and its payload starts 2 bytes behind the address   *)
(* bytes; if the control word is 0x1000, the declared length is the 4-byte *)
(* big-endian field that follows and the payload starts 6 bytes behind the *)
(* address bytes.                                                          *)
(***************************************************************************)
C30_FirstFrameLength ==
    FirstFrameBound =>
        LET ae == Len(out.tvb.head)
            escaped == ControlWord(out.tvb) = 4096
            start == IF escaped THEN ae + 6 ELSE ae + 2
            fr == iso15765_frame_table[out.res.seq]
        IN  /\ fr.len = IF escaped THEN 70000 ELSE ControlWord(out.tvb) % 4096
            /\ fr.offset = out.tvb.tvb_len - start
            /\ (out.next_tvb.present /\ ~out.next_tvb.reassembled) =>
                   /\ out.next_tvb.offset = start
                   /\ out.next_tvb.length = out.tvb.tvb_len - start

\* a First Frame with control word 0x1000 behind an address byte: 70000 bytes
\* declared, payload from offset 7
C30_Witness ==
    /\ FirstFrameBound
    /\ ControlWord(out.tvb) = 4096
    /\ Len(out.tvb.head) = 1
    /\ iso15765_frame_table[out.res.seq].len = 70000
    /\ out.next_tvb.present
    /\ out.next_tvb.offset = 7

\* header bytes behind the address prefix: where the payload of t starts
HeaderLength(t) == Classify(t, Addresses(t).ae).offset - Addresses(t).ae

\* bytes of the frame behind the header
Remainder(t) == t.tvb_len - Addresses(t).ae - HeaderLength(t)

Min(a, b) == IF a < b THEN a ELSE b

\* the payload of a First or Consecutive Frame is dispatched as it came
SegmentDispatched ==
    /\ Called
    /\ IsFirstFrame(out.tvb) \/ IsConsecutiveFrame(out.tvb)
    /\ out.next_tvb.present
    /\ ~out.next_tvb.reassembled

(***************************************************************************)
(* C31: the payload of a FlexRay First or Consecutive Frame under a        *)
(* nonzero segment size limit is min(bytes behind the header, limit -      *)
(* header length), for every limit, those below the header length          *)
(* included; on another link or with limit 0 it is all bytes behind the    *)
(* header.                                                                 *)
(***************************************************************************)
C31_SegmentClamped ==
    SegmentDispatched =>
        out.next_tvb.length =
            IF out.tvb.bus_type = "FLEXRAY" /\ cfg.flexray_segment_size_limit # 0
            THEN Min(Remainder(out.tvb),
                     cfg.flexray_segment_size_limit - HeaderLength(out.tvb))
            ELSE Remainder(out.tvb)

\* a Flow Control or Ack frame has been dissected to its end
FlowDecoded ==
    /\ Called
    /\ out.tvb.pci \div 16 \in {ISO15765_MESSAGE_TYPES_FLOW_CONTROL,
                               ISO15765_MESSAGE_TYPES_FR_ACK_FRAME}
    /\ out.fc.present

(***************************************************************************)
(* C32: the separation time of a Flow Control or Ack frame: a byte v in    *)
(* 0xF1 .. 0xF9 is shown as (v - 0xF0) * 100 microseconds, every other     *)
(* byte 0 .. 255 as v milliseconds.                                        *)
(***************************************************************************)
C32_SeparationTime ==
    FlowDecoded =>
        LET v == StMinByte(out.tvb)
        IN  /\ v \in 0..255
            /\ v \in 241..249 =>
                  /\ out.fc.shown.stmin_in_us
                  /\ out.fc.shown.stmin = (v - 240) * 100
            /\ v \notin 241..249 =>
                  /\ ~out.fc.shown.stmin_in_us
                  /\ out.fc.shown.stmin = v

\* 0xF5 has been shown as 500 microseconds
C32_Witness ==
    /\ FlowDecoded
    /\ StMinByte(out.tvb) = 245
    /\ out.fc.shown = [stmin |-> 500, stmin_in_us |-> TRUE]

\* the frames whose first pass handed a fragment of sequence s to the
\* reassembly with the terminal flag (more_frags = FALSE)
TerminalFrames(s) ==
    {i \in 1..Len(frames) :
        /\ frames[i].first.bound
        /\ frames[i].first.seq = s
        /\ frames[i].first.handed
        /\ frames[i].first.exception = "none"
        /\ frames[i].first.last}

(***************************************************************************)
(* C33: at most one frame of a MessageSequence is handed to the reassembly *)
(* as its last fragment; a frame bound to the sequence after the           *)
(* completing one is not flagged terminal again.                           *)
(***************************************************************************)
C33_OneTerminalFrame ==
    \A s \in DOMAIN iso15765_frame_table : Cardinality(TerminalFrames(s)) <= 1

\* a fragment has been passed to fragment_add_seq_check
FragmentHanded == Called /\ out.res.bound /\ out.res.handed

(***************************************************************************)
(* C34: the length passed to the reassembly with a fragment lies between 0 *)
(* and the frame's effective payload length; the trim len - (offset -      *)
(* declared length) never wraps below zero as a guint32 (a value with the  *)
(* top bit set is negative here).                                          *)
(***************************************************************************)
C34_LengthWithinPayload ==
    FragmentHanded =>
        /\ out.res.len >= 0
        /\ out.res.len <= EffectiveLength(out.tvb)

\* the sequence of the one message of the file
TheMessage == iso15765_frame_table[frames[1].first.seq]

\* the first frame of the file with which the bytes sent reach n, 0 if none
FirstReach(n) ==
    LET reached == {i \in 1..Len(frames) : BytesSent(frames, i) >= n}
    IN  IF reached = {} THEN 0 ELSE CHOOSE i \in reached : \A j \in reached : i <= j

(***************************************************************************)
(* C35: a single message delivered in order and without gaps never becomes *)
(* Errored, whatever the window; after each frame its highest fragment id  *)
(* seen is the id of the latest fragment; and it is Complete from exactly  *)
(* the first frame on with which the bytes sent reach the declared length. *)
(***************************************************************************)
C35_InOrderMessage ==
    frames # <<>> =>
        /\ ~TheMessage.error
        /\ TheMessage.last_frag_id = frames[Len(frames)].first.frag_id
        /\ frames[Len(frames)].first.frag_id = Len(frames) - 1
        /\ TheMessage.complete <=> FirstReach(TheMessage.len) # 0
        /\ \A i \in 1..Len(frames) :
              (frames[i].first.handed /\ frames[i].first.last) <=> i = FirstReach(TheMessage.len)

\* the sequence opened last in this file
Newest(table) == MaxOf(DOMAIN table)

(***************************************************************************)
(* C36: once a new First Frame has opened a sequence, an earlier sequence  *)
(* (Open or not) is superseded: every later first-pass Consecutive Frame   *)
(* is bound to the newest sequence, and the bytes accumulated, wrap        *)
(* counters, highest id and flags of every earlier sequence stay as they   *)
(* are, in every step.                                                     *)
(***************************************************************************)
C36_Superseded ==
    [][/\ \A s \in (DOMAIN iso15765_frame_table) \cap (DOMAIN iso15765_frame_table') :
            s # Newest(iso15765_frame_table') =>
                iso15765_frame_table'[s] = iso15765_frame_table[s]
       /\ (FirstPassStep /\ IsConsecutiveFrame(out'.tvb) /\ iso15765_frame_table' # EmptyMap) =>
            /\ out'.res.bound
            /\ out'.res.seq = Newest(iso15765_frame_table')]_vars

\* First Frame, Consecutive Frame, First Frame, Consecutive Frame: the last
\* frame is incorporated into sequence 2 while sequence 1, still Open, keeps
\* the 3 bytes and the highest id it had
C36_Witness ==
    /\ Len(frames) = 4
    /\ out.pass = "first"
    /\ out.num = 4
    /\ IsConsecutiveFrame(out.tvb)
    /\ IsFirstFrame(frames[3].tvb)
    /\ out.res.seq = 2
    /\ out.res.handed
    /\ Open(iso15765_frame_table[1])
    /\ iso15765_frame_table[1].offset = 3
    /\ iso15765_frame_table[1].last_frag_id = frames[2].first.frag_id
    /\ iso15765_frame_table[2].offset = 3

\* the message type of t is Flow Control or Ack
IsFlowControl(t) ==
    /\ ~Flagged(t)
    /\ ~Addresses(t).short
    /\ t.tvb_len >= Addresses(t).ae + 1
    /\ t.pci \div 16 \in {ISO15765_MESSAGE_TYPES_FLOW_CONTROL,
                         ISO15765_MESSAGE_TYPES_FR_ACK_FRAME}

(***************************************************************************)
(* C37: a dissection of a Flow Control or Ack frame, on the first pass or  *)
(* on replay, with or without an Open sequence, leaves the sequence-id     *)
(* generator, every MessageSequence and the reassembly tables as they were *)
(* and dispatches nothing.                                                 *)
(***************************************************************************)
C37_FlowControlInert ==
    [][(out'.pass \in {"first", "replay"} /\ IsFlowControl(out'.tvb)) =>
            /\ EngineUnchanged
            /\ out'.res.dispatch = "none"
            /\ out'.sent = "none"
            /\ ~out'.next_tvb.present
            /\ ~out'.data.offered
            /\ ~out'.res.bound
            /\ \A i \in 1..Len(frames) : frames'[i].info = frames[i].info]_vars

\* a First Frame, then an Ack frame dissected to its end while the sequence
\* is Open with 1 of its 3 bytes
C37_Witness ==
    /\ Len(frames) = 2
    /\ out.pass = "first"
    /\ out.tvb.pci \div 16 = ISO15765_MESSAGE_TYPES_FR_ACK_FRAME
    /\ out.fc.present
    /\ out.sent = "none"
    /\ msg_seqid = 1
    /\ Open(iso15765_frame_table[1])
    /\ iso15765_frame_table[1].offset = 1

====
